---- MODULE Spec2Model ----
(***************************************************************************)
(* A model of the grobber engine: stream resolution (Episode.stream,       *)
(* get_first, Stream.working), the source routes, the live search fan-out  *)
(* (sources.search_anime), the result pool (_search_anime) and the ranking *)
(* of the results (query.search_anime).                                    *)
(*                                                                         *)
(* Every modelled object is one variable holding a record of its fields.   *)
(* Each specification runs one component; the other objects rest in Idle.  *)
(***************************************************************************)
EXTENDS Integers, Sequences, FiniteSets, TLC

VARIABLES episode, response, stream, search, query, ranking,
          grouping, medium_group, expiring, prop, request, url_pool,
          stateful, uid_parser, scraper, collection, staggered, ref_counter,
          dirty_tree, scrapers_run, first_call, smart_wait, write_back,
          group_run, search_run

vars == <<episode, response, stream, search, query, ranking,
          grouping, medium_group, expiring, prop, request, url_pool,
          stateful, uid_parser, scraper, collection, staggered, ref_counter,
          dirty_tree, scrapers_run, first_call, smart_wait, write_back,
          group_run, search_run>>

\* The value of an object no operation of the running specification touches.
Idle == [pc |-> "idle"]

\* The objects of the last sections at rest.
LaterIdle ==
    /\ dirty_tree = Idle /\ scrapers_run = Idle /\ first_call = Idle
    /\ smart_wait = Idle /\ write_back = Idle /\ group_run = Idle
    /\ search_run = Idle

later_objects == <<dirty_tree, scrapers_run, first_call, smart_wait, write_back,
                   group_run, search_run>>

(***************************************************************************)
(* Episode.stream: the race of the streams, one priority group at a time.  *)
(***************************************************************************)

\* Number of streams of the episode.
NStreams == 3

\* Stream.PRIORITY of the registered extractors: the default and Openload's.
PRIORITY_DEFAULT == 100
PRIORITY_OPENLOAD == 5
Priorities == {PRIORITY_OPENLOAD, PRIORITY_DEFAULT}

StreamIds == 1..NStreams

\* Episode.streams ends with streams.sort(key=PRIORITY, reverse=True).
SortedByPriority(ss) == \A i, j \in StreamIds : i < j => ss[i].PRIORITY >= ss[j].PRIORITY

\* A stream extractor: its class priority, its `external` flag and whether
\* its links probe finds at least one video link.
StreamInputs == [PRIORITY : Priorities, external : BOOLEAN, has_links : BOOLEAN]

\* Stream.working: len(await self.links) > 0.
working(s) == s.has_links

\* Stream.working_external_self: self iff external and working, else None.
\* The result is the stream's index, None is 0.
working_external_self(i) ==
    IF episode.streams[i].external /\ working(episode.streams[i]) THEN i ELSE 0

\* itertools.groupby over the sorted list: the members of the group of priority p.
group_all_below(p) == {i \in StreamIds : episode.streams[i].PRIORITY <= p}
group(p) == {i \in StreamIds : episode.streams[i].PRIORITY = p}

\* The priorities the for loop has still to visit, after the group `after`.
remaining_priorities(after) ==
    {episode.streams[i].PRIORITY : i \in StreamIds} \cap {p \in Priorities : p < after}

Max(S) == CHOOSE x \in S : \A y \in S : y <= x

\* asyncio.wait(coros): done are the tasks that have finished when the waiter
\* resumes, pending the others.
wait_done(coros) == {i \in coros : episode.task[i] = "finished"}

\* get_first looks at one member of done only: next(iter(done)). The order
\* of a set of tasks is that of their addresses, so any member may come first.
examined(done) == done

InitEpisode ==
    /\ \E ss \in [StreamIds -> StreamInputs] :
          /\ SortedByPriority(ss)
          /\ episode = [pc |-> "for", streams |-> ss,
                        task |-> [i \in StreamIds |-> "new"],
                        result |-> [i \in StreamIds |-> 0],
                        coros |-> {}, priority |-> PRIORITY_DEFAULT + 1, stream |-> 0]
    /\ response = [route |-> "none", status |-> "none", stream |-> 0]
    /\ stream = Idle /\ search = Idle /\ query = Idle /\ ranking = Idle
    /\ grouping = Idle /\ medium_group = Idle /\ expiring = Idle
    /\ prop = Idle /\ request = Idle /\ url_pool = Idle
    /\ stateful = Idle /\ uid_parser = Idle /\ scraper = Idle
    /\ collection = Idle /\ staggered = Idle /\ ref_counter = Idle
    /\ LaterIdle

notEpisode == <<stream, search, query, ranking,
    grouping, medium_group, expiring, prop, request, url_pool,
    stateful, uid_parser, scraper, collection, staggered, ref_counter, later_objects>>

\* for priority, streams in groupby(all_streams): the next group is raced by
\* get_first, whose asyncio.wait starts one task per member; after the last
\* group the property returns None.
EpisodeNextGroup ==
    /\ episode.pc = "for"
    /\ LET rest == remaining_priorities(episode.priority)
       IN IF rest = {}
          THEN episode' = [episode EXCEPT !.pc = "returned", !.stream = 0]
          ELSE LET p == Max(rest)
               IN episode' = [episode EXCEPT
                      !.pc = "wait", !.priority = p, !.coros = group(p),
                      !.task = [i \in StreamIds |->
                                   IF i \in group(p) THEN "pending" ELSE @[i]]]
    /\ UNCHANGED <<response, notEpisode>>

\* A task of working_external_self runs to its end.
ProbeFinishes(i) ==
    /\ episode.task[i] = "pending"
    /\ episode' = [episode EXCEPT !.task[i] = "finished",
                                  !.result[i] = working_external_self(i)]
    /\ UNCHANGED <<response, notEpisode>>

\* get_first resumes from asyncio.wait(FIRST_COMPLETED): it takes one done
\* task; a truthy result cancels the pending tasks and is returned, a falsy
\* one continues with the pending tasks only (None when there are none).
GetFirstResumes ==
    /\ episode.pc = "wait"
    /\ wait_done(episode.coros) # {}
    /\ LET done == wait_done(episode.coros)
           pending == episode.coros \ done
       IN \E first \in examined(done) :
            IF episode.result[first] # 0
            THEN episode' = [episode EXCEPT
                     !.pc = "returned", !.stream = episode.result[first],
                     !.coros = {},
                     !.task = [i \in StreamIds |->
                                  IF i \in pending THEN "cancelled" ELSE @[i]]]
            ELSE episode' = [episode EXCEPT
                     !.coros = pending,
                     !.pc = IF pending = {} THEN "for" ELSE "wait"]
    /\ UNCHANGED <<response, notEpisode>>

\* Stream.links as a route reads it: the list is non-empty iff the probe
\* finds a video link.
links(i) == IF episode.streams[i].has_links THEN <<"link">> ELSE <<>>

\* GET /source/<uid>/<episode_index>/: the link of episode.stream, or 404.
episode_source ==
    /\ episode.pc = "returned"
    /\ LET s == episode.stream
           ls == IF s # 0 THEN links(s) ELSE <<>>
       IN response' = [route |-> "episode_source", stream |-> s,
                       status |-> IF ls # <<>> THEN "redirect" ELSE "abort404"]
    /\ UNCHANGED <<episode, notEpisode>>

\* GET /source/<uid>/<episode_index>/<stream_index>/: Episode.get(index)
\* raises StreamNotFound outside 0 <= index < len(streams); else the link of
\* that stream, or 404.
episode_stream_source(index) ==
    /\ IF ~(0 <= index /\ index < NStreams)
       THEN response' = [route |-> "episode_stream_source", stream |-> 0,
                         status |-> "StreamNotFound"]
       ELSE response' = [route |-> "episode_stream_source", stream |-> index + 1,
                         status |-> IF links(index + 1) # <<>> THEN "redirect"
                                    ELSE "abort404"]
    /\ UNCHANGED <<episode, notEpisode>>

NextEpisode ==
    \/ EpisodeNextGroup
    \/ \E i \in StreamIds : ProbeFinishes(i)
    \/ GetFirstResumes
    \/ episode_source
    \/ \E index \in 0..NStreams : episode_stream_source(index)

SpecEpisode == InitEpisode /\ [][NextEpisode]_vars

\* ---- properties of the stream race and of the source routes ----

Usable(i) == episode.streams[i].external /\ episode.streams[i].has_links
Prio(i) == episode.streams[i].PRIORITY

\* C1: Episode.stream returns a stream of priority p only if every stream of
\* a greater priority has finished its probe with a falsy result; it never
\* returns a lower-priority stream while a higher group has an external,
\* working member.
C1_HigherGroupsExhausted ==
    (episode.pc = "returned" /\ episode.stream # 0) =>
        \A j \in StreamIds : Prio(j) > Prio(episode.stream) =>
            /\ episode.task[j] = "finished"
            /\ episode.result[j] = 0
            /\ ~Usable(j)

\* C2: when a raced priority group holds exactly one external, working
\* stream (and no higher group holds any), Episode.stream returns that
\* stream whatever the completion order, and no member of the group is left
\* running.
C2_UniqueWinnerReturned ==
    episode.pc = "returned" =>
        \A i \in StreamIds :
            ( /\ Usable(i)
              /\ \A j \in StreamIds \ {i} : Prio(j) >= Prio(i) => ~Usable(j) )
            => /\ episode.stream = i
               /\ \A j \in group(Prio(i)) : episode.task[j] # "pending"

\* C3: when a stream is accepted as the winner, no stream of a lower
\* priority group has had its probe started.
C3_LowerGroupsNeverProbed ==
    (episode.pc = "returned" /\ episode.stream # 0) =>
        \A j \in StreamIds : Prio(j) < Prio(episode.stream) => episode.task[j] = "new"

\* Priorities [100, 100, 5] with only the second stream working: the second
\* is returned and the third was never probed.
C3_Witness ==
    /\ episode.pc = "returned" /\ episode.stream = 2
    /\ Prio(1) = PRIORITY_DEFAULT /\ Prio(2) = PRIORITY_DEFAULT
    /\ Prio(NStreams) = PRIORITY_OPENLOAD
    /\ ~Usable(1) /\ Usable(2)
    /\ episode.task[1] = "finished" /\ episode.task[NStreams] = "new"

\* C5: a client is redirected to a stream link only if that stream is both
\* external and working, on the per-episode and on the per-stream route.
C5_RedirectOnlyExternalWorking ==
    response.status = "redirect" => Usable(response.stream)

(***************************************************************************)
(* One Stream: the cached properties `links` and `working` under the       *)
(* Expiring overlay (CHANGING_ATTRS = ("links",), EXPIRE_TIME = HOUR).     *)
(***************************************************************************)

\* Expiring.HOUR, in seconds, and Stream.EXPIRE_TIME = Expiring.HOUR.
HOUR == 3600
EXPIRE_TIME == HOUR

\* The clock advances in steps of Tick seconds; the time since last_update
\* (`age`, now - last_update) is followed up to AgeCap.
Tick == 1800
AgeCap == EXPIRE_TIME + 2 * Tick

\* The most video links the host page serves.
MaxLinks == 2

\* A cache slot of cached_property: <<>> while the attribute is not set,
\* <<v>> once it is.
Unset == <<>>
Cached(v) == <<v>>

\* Expiring._update: more than EXPIRE_TIME since last_update.
update_due(s) == s.age > EXPIRE_TIME

\* Expiring.__getattribute__ for a name in CHANGING_ATTRS: when _update is
\* true, last_update becomes now and the cache of every CHANGING_ATTR (for
\* a Stream: links) is deleted.
getattribute_changing(s) ==
    IF update_due(s) THEN [s EXCEPT !.age = 0, !.c_links = Unset] ELSE s

InitStream ==
    /\ \E n \in 0..MaxLinks :
          stream = [pc |-> "idle", c_links |-> Unset, c_working |-> Unset,
                    age |-> 0, site |-> n]
    /\ episode = Idle /\ response = Idle /\ search = Idle /\ query = Idle
    /\ ranking = Idle
    /\ grouping = Idle /\ medium_group = Idle /\ expiring = Idle
    /\ prop = Idle /\ request = Idle /\ url_pool = Idle
    /\ stateful = Idle /\ uid_parser = Idle /\ scraper = Idle
    /\ collection = Idle /\ staggered = Idle /\ ref_counter = Idle
    /\ LaterIdle

notStream == <<episode, response, search, query, ranking,
    grouping, medium_group, expiring, prop, request, url_pool,
    stateful, uid_parser, scraper, collection, staggered, ref_counter, later_objects>>

\* A read of stream.links by a route, to_dict or Episode.sources: the expiry
\* check, then the cached list or a fresh fetch (the list has `site` links).
\* The per-field lock keeps it behind a computation that is in flight.
links_read ==
    /\ stream.pc = "idle"
    /\ LET s == getattribute_changing(stream)
       IN stream' = IF s.c_links # Unset THEN s
                    ELSE [s EXCEPT !.c_links = Cached(stream.site)]
    /\ UNCHANGED notStream

\* A read of stream.working (by working_external_self): the cached value if
\* there is one; else len(await self.links) > 0, where the read of links
\* does the expiry check and either finds the list cached or starts to
\* fetch it.
working_read ==
    /\ stream.pc = "idle"
    /\ IF stream.c_working # Unset
       THEN UNCHANGED stream
       ELSE LET s == getattribute_changing(stream)
            IN stream' = IF s.c_links # Unset
                         THEN [s EXCEPT !.c_working = Cached(s.c_links[1] > 0)]
                         ELSE [s EXCEPT !.pc = "awaiting_links"]
    /\ UNCHANGED notStream

\* The fetch started by working ends: links and then working are cached.
working_links_fetched ==
    /\ stream.pc = "awaiting_links"
    /\ stream' = [stream EXCEPT !.pc = "idle", !.c_links = Cached(stream.site),
                                !.c_working = Cached(stream.site > 0)]
    /\ UNCHANGED notStream

\* The probe is cancelled as a race loser while it awaits links, or the
\* fetch raises: links is left unset, working catches the CancelledError
\* (or logs the Exception), returns False, and the getter caches it.
working_cancelled ==
    /\ stream.pc = "awaiting_links"
    /\ stream' = [stream EXCEPT !.pc = "idle", !.c_working = Cached(FALSE)]
    /\ UNCHANGED notStream

\* Time passes.
time_passes ==
    /\ stream.age < AgeCap
    /\ stream' = [stream EXCEPT !.age = @ + Tick]
    /\ UNCHANGED notStream

\* The host starts to serve another number of links.
site_changes ==
    /\ \E n \in 0..MaxLinks : n # stream.site /\ stream' = [stream EXCEPT !.site = n]
    /\ UNCHANGED notStream

NextStream ==
    \/ links_read
    \/ working_read
    \/ working_links_fetched
    \/ working_cancelled
    \/ time_passes
    \/ site_changes

SpecStream == InitStream /\ [][NextStream]_vars

\* C4: whenever the stream reports both a value of working and a list of
\* links, working equals (len(links) > 0).
C4_WorkingMatchesLinks ==
    (stream.c_working # Unset /\ stream.c_links # Unset) =>
        stream.c_working[1] = (stream.c_links[1] > 0)

(***************************************************************************)
(* sources.search_anime: the live fan-out over the registered sources, a   *)
(* first batch (Phase A) and then free for all (Phase B).                  *)
(***************************************************************************)

\* Number of registered sources, and the most results the sources yield
\* together.
NSources == 2
MaxResults == 3

Sources == 1..NSources

RECURSIVE Sum(_, _)
Sum(f, S) == IF S = {} THEN 0 ELSE LET x == CHOOSE x \in S : TRUE
                                   IN f[x] + Sum(f, S \ {x})

\* What awaiting anext(src) ends with: a result, the generator's end, or an
\* exception raised by the source's search.
Outcomes == {"result", "StopAsyncIteration", "Exception"}

\* anext(src) on source s: its next result while it has one, then the way
\* its search ends; a generator that has ended raises StopAsyncIteration.
anext(s) ==
    IF search.ended[s] THEN "StopAsyncIteration"
    ELSE IF search.produced[s] < search.n_results[s] THEN "result"
    ELSE search.ending[s]

\* waiter.wrapped: `except Exception as e: return e, src` turns every
\* outcome into a returned value; an outcome that escaped would be re-raised
\* by done.result().
wrapped_stop_only(outcome) == IF outcome = "Exception" THEN "raised" ELSE outcome
wrapped(outcome) == outcome

\* handle_result: True (and the source is asked again) only for a result;
\* StopAsyncIteration and other exceptions are logged.
handle_result_also_failed(result) == result \in {"result", "Exception"}
handle_result(result) == result = "result"

Finished(s) == search.task[s] \notin {"none", "pending"}

\* asyncio.wait(waiting_sources, return_when=ALL_COMPLETED, timeout=5)
\* returns when every task has finished or when the 5 s have elapsed.
batch_wait_first_completed(timed_out) ==
    timed_out \/ \E s \in search.waiting_sources : Finished(s)
batch_wait_over(timed_out) ==
    timed_out \/ \A s \in search.waiting_sources : Finished(s)

\* The done set asyncio.wait hands back: a finished task of source s with
\* its result and, for a result, its position among the results of s.
TaskOf(s) == <<s, search.task[s], search.produced[s]>>
done_of(tasks) == {TaskOf(s) : s \in {t \in tasks : Finished(t)}}

\* for done in done_sources (Phase A): the tasks of the done set of the
\* batch wait, in the order of the set.
first_batch_live == search.done_sources \cup done_of(search.waiting_sources)
first_batch == search.done_sources

InitSearch ==
    /\ \E n \in [Sources -> 0..MaxResults], e \in [Sources -> {"StopAsyncIteration", "Exception"}] :
          /\ Sum(n, Sources) <= MaxResults
          /\ search = [pc |-> "phaseA_wait", n_results |-> n, ending |-> e,
                       produced |-> [s \in Sources |-> 0],
                       ended |-> [s \in Sources |-> FALSE],
                       task |-> [s \in Sources |-> "pending"],
                       asked |-> [s \in Sources |-> 1],
                       waiting_sources |-> Sources, done_sources |-> {},
                       timed_out |-> FALSE, late |-> {}, yielded |-> <<>>]
    /\ episode = Idle /\ response = Idle /\ stream = Idle /\ query = Idle
    /\ ranking = Idle
    /\ grouping = Idle /\ medium_group = Idle /\ expiring = Idle
    /\ prop = Idle /\ request = Idle /\ url_pool = Idle
    /\ stateful = Idle /\ uid_parser = Idle /\ scraper = Idle
    /\ collection = Idle /\ staggered = Idle /\ ref_counter = Idle
    /\ LaterIdle

notSearch == <<episode, response, stream, query, ranking,
    grouping, medium_group, expiring, prop, request, url_pool,
    stateful, uid_parser, scraper, collection, staggered, ref_counter, later_objects>>

\* The waiter task of source s finishes: res = await anext(src).
SourceAnswers(s) ==
    /\ search.task[s] = "pending"
    /\ LET outcome == anext(s)
       IN search' = [search EXCEPT
              !.task[s] = wrapped(outcome),
              !.produced[s] = IF outcome = "result" THEN @ + 1 ELSE @,
              !.ended[s] = (outcome # "result")]
    /\ UNCHANGED notSearch

\* The batch wait returns its done and pending sets.
BatchWaitReturns ==
    /\ search.pc = "phaseA_wait"
    /\ \E timed_out \in BOOLEAN :
          /\ timed_out => \E s \in search.waiting_sources : ~Finished(s)
          /\ batch_wait_over(timed_out)
          /\ LET done == done_of(search.waiting_sources)
                 pending == {s \in search.waiting_sources : ~Finished(s)}
             IN search' = [search EXCEPT
                    !.pc = "phaseA_for", !.done_sources = done,
                    !.waiting_sources = pending, !.late = pending,
                    !.timed_out = timed_out]
    /\ UNCHANGED notSearch

\* One turn of `for done in done_sources`: result, source = done.result();
\* handle_result re-enqueues a source that gave a result, and the result is
\* yielded to the consumer.
ForDone(batch, phase) ==
    \E d \in batch :
       LET s == d[1]
           result == d[2]
       IN IF result = "raised"
          THEN search' = [search EXCEPT !.pc = "raised"]
          ELSE IF handle_result(result)
          THEN search' = [search EXCEPT
                   !.done_sources = @ \ {d},
                   !.waiting_sources = (@ \ {s}) \cup {s},
                   !.task[s] = "pending", !.asked[s] = @ + 1,
                   !.yielded = Append(@, [source |-> s, index |-> d[3], phase |-> phase])]
          ELSE search' = [search EXCEPT
                   !.done_sources = @ \ {d},
                   !.waiting_sources = @ \ {s},
                   !.task[s] = "none"]

\* while waiting_sources: the generator ends when no task is left.
WhileWaiting == IF search.waiting_sources = {} THEN "exhausted" ELSE "phaseB_wait"

FirstBatchFor ==
    /\ search.pc = "phaseA_for"
    /\ IF first_batch = {}
       THEN search' = [search EXCEPT !.pc = WhileWaiting]
       ELSE ForDone(first_batch, "A")
    /\ UNCHANGED notSearch

\* asyncio.wait(waiting_sources, return_when=FIRST_COMPLETED) returns.
FreeForAllWaitReturns ==
    /\ search.pc = "phaseB_wait"
    /\ \E s \in search.waiting_sources : Finished(s)
    /\ search' = [search EXCEPT
           !.pc = "phaseB_for", !.done_sources = done_of(search.waiting_sources),
           !.waiting_sources = {s \in @ : ~Finished(s)}]
    /\ UNCHANGED notSearch

FreeForAllFor ==
    /\ search.pc = "phaseB_for"
    /\ IF search.done_sources = {}
       THEN search' = [search EXCEPT !.pc = WhileWaiting]
       ELSE ForDone(search.done_sources, "B")
    /\ UNCHANGED notSearch

NextSearch ==
    \/ \E s \in Sources : SourceAnswers(s)
    \/ BatchWaitReturns
    \/ FirstBatchFor
    \/ FreeForAllWaitReturns
    \/ FreeForAllFor

SpecSearch == InitSearch /\ [][NextSearch]_vars

\* ---- properties of the live fan-out ----

\* The positions in `yielded` of the results of source s.
YieldsOf(s) == {k \in DOMAIN search.yielded : search.yielded[k].source = s}

\* C6: search_anime never raises, and when it ends every source - also one
\* whose search raised, at its first or at a later result - has had each of
\* its results yielded exactly once and was asked once per result plus the
\* one time that ended it: a failed or exhausted source is not asked again.
C6_BadSourceNeverFailsSearch ==
    /\ search.pc # "raised"
    /\ search.pc = "exhausted" =>
          \A s \in Sources :
             /\ Cardinality(YieldsOf(s)) = search.n_results[s]
             /\ \A i \in 1..search.n_results[s] :
                   \E k \in YieldsOf(s) : search.yielded[k].index = i
             /\ search.asked[s] = search.n_results[s] + 1

\* One source raised after its first result, another was exhausted after
\* its results, and the search has ended.
C6_Witness ==
    /\ search.pc = "exhausted"
    /\ \E s, t \in Sources :
          /\ s # t
          /\ search.ending[s] = "Exception" /\ search.n_results[s] = 1
          /\ search.ending[t] = "StopAsyncIteration" /\ search.n_results[t] >= 1
          /\ Cardinality(YieldsOf(t)) = search.n_results[t]

AnsweredInBatch == {s \in Sources \ search.late : search.n_results[s] >= 1}

\* C8: Phase A yields at most one result per source, and a second (or
\* later) result of a source is yielded only after the first result of
\* every source that answered within the batch deadline.
C8_OneResultPerSourceInBatch ==
    /\ \A s \in Sources :
          Cardinality({k \in YieldsOf(s) : search.yielded[k].phase = "A"}) <= 1
    /\ \A k \in DOMAIN search.yielded :
          search.yielded[k].index >= 2 =>
             \A s \in AnsweredInBatch :
                \E j \in YieldsOf(s) : j < k /\ search.yielded[j].index = 1

\* A fast source had its second result ready during Phase A; it was yielded
\* after the first results of both sources of the batch.
C8_Witness ==
    /\ Cardinality(AnsweredInBatch) >= 2
    /\ Len(search.yielded) >= 3
    /\ search.yielded[1].phase = "A" /\ search.yielded[2].phase = "A"
    /\ search.yielded[3].index = 2 /\ search.yielded[3].phase = "B"

(***************************************************************************)
(* query._search_anime: the results pool, from the database hits, the      *)
(* index hits and the live fan-out.                                        *)
(***************************************************************************)

\* Number of source animes (each with its own request URL) a query may hit.
NAnimes == 2

\* The most results a request asks for in the model (the route allows 20).
MaxNumResults == 2

\* A certainty is get_certainty's ratio rounded to two decimals, here in
\* hundredths; SearchResult(a, 1) of a database or index hit has CERTAIN.
CERTAIN == 100
CertaintySteps == 1
Certainties == (CERTAIN - CertaintySteps)..CERTAIN

Animes == 1..NAnimes

\* A SearchResult: the anime (its request URL), the certainty, and whether
\* the anime object is the stored copy built from its database document.
SearchResults == [anime : Animes, certainty : Certainties, stored : BOOLEAN]

\* SearchResult.__eq__ is the one @dataclass generates: the tuples
\* (anime, certainty) are equal; SourceAnime.__eq__ compares hash(self._req),
\* the request URL.
SearchResult_eq(a, b) == a.anime = b.anime /\ a.certainty = b.certainty

\* `result in pool` and pool.add(result) of a Python set: SearchResult.__hash__
\* is hash(anime), membership is decided by __eq__.
contains(pool, result) == \E x \in pool : SearchResult_eq(x, result)
set_add(pool, result) == IF contains(pool, result) THEN pool ELSE pool \cup {result}

RECURSIVE set_update(_, _)
set_update(pool, results) ==
    IF results = {} THEN pool
    ELSE LET r == CHOOSE r \in results : TRUE
         IN set_update(set_add(pool, r), results \ {r})

Max2(a, b) == IF a >= b THEN a ELSE b
Min2(a, b) == IF a <= b THEN a ELSE b

\* consider_results = max(num_results, min(int(len(sources.SOURCES) * 1.5), 5)).
consider_results(num_results) == Max2(num_results, Min2((NSources * 3) \div 2, 5))

InitQuery ==
    /\ \E num \in 1..MaxNumResults, db \in SUBSET Animes, idx \in SUBSET Animes,
          st \in SUBSET Animes :
          /\ db \subseteq st
          /\ query = [pc |-> "database", num_results |-> num,
                      database |-> db, index |-> idx, stored_animes |-> st,
                      results_pool |-> {}, search_results |-> {}]
    /\ episode = Idle /\ response = Idle /\ stream = Idle /\ search = Idle
    /\ ranking = Idle
    /\ grouping = Idle /\ medium_group = Idle /\ expiring = Idle
    /\ prop = Idle /\ request = Idle /\ url_pool = Idle
    /\ stateful = Idle /\ uid_parser = Idle /\ scraper = Idle
    /\ collection = Idle /\ staggered = Idle /\ ref_counter = Idle
    /\ LaterIdle

notQuery == <<episode, response, stream, search, ranking,
    grouping, medium_group, expiring, prop, request, url_pool,
    stateful, uid_parser, scraper, collection, staggered, ref_counter, later_objects>>

\* The animes of the database whose title is the query join the pool with
\* certainty 1; a failing lookup is logged and skipped.
DatabaseHits ==
    /\ query.pc = "database"
    /\ \E failed \in BOOLEAN :
          LET anime == IF failed THEN {} ELSE query.database
              hits == {[anime |-> a, certainty |-> CERTAIN, stored |-> TRUE] : a \in anime}
          IN query' = [query EXCEPT !.pc = "index",
                                    !.results_pool = set_update(@, hits)]
    /\ UNCHANGED notQuery

\* The media of the source index matching the query are turned into source
\* animes and join the pool with certainty 1; then, with fewer than
\* num_results in the pool, the live search starts.
IndexHits ==
    /\ query.pc = "index"
    /\ LET hits == {[anime |-> a, certainty |-> CERTAIN, stored |-> FALSE] : a \in query.index}
           pool == set_update(query.results_pool, hits)
       IN query' = [query EXCEPT
              !.results_pool = pool,
              !.pc = IF Cardinality(pool) < query.num_results THEN "live" ELSE "returned"]
    /\ UNCHANGED notQuery

\* uids, stored_animes = get_animes(uids): a live result whose uid is in the
\* database gets the stored anime; then results_pool.update(search_results).
merge_search_results(q) ==
    LET hydrated == {[r EXCEPT !.stored = (r.anime \in q.stored_animes)] :
                        r \in q.search_results}
    IN [q EXCEPT !.pc = "returned", !.search_results = hydrated,
                 !.results_pool = set_update(@, hydrated)]

\* One turn of `async for result in result_iter`: a result that is in
\* neither pool is added, any other is ignored; the loop ends once the two
\* pools hold consider_results results.
LiveResult(a, c) ==
    /\ query.pc = "live"
    /\ LET result == [anime |-> a, certainty |-> c, stored |-> FALSE]
           found == IF ~contains(query.search_results, result)
                       /\ ~contains(query.results_pool, result)
                    THEN set_add(query.search_results, result)
                    ELSE query.search_results
           q == [query EXCEPT !.search_results = found]
       IN query' = IF Cardinality(q.results_pool) + Cardinality(found)
                        >= consider_results(q.num_results)
                   THEN merge_search_results(q)
                   ELSE q
    /\ UNCHANGED notQuery

\* The live search is exhausted before the pools hold consider_results.
LiveExhausted ==
    /\ query.pc = "live"
    /\ query' = merge_search_results(query)
    /\ UNCHANGED notQuery

NextQuery ==
    \/ DatabaseHits
    \/ IndexHits
    \/ \E a \in Animes, c \in Certainties : LiveResult(a, c)
    \/ LiveExhausted

SpecQuery == InitQuery /\ [][NextQuery]_vars

\* C9: the results pool never holds two SearchResults of the same source
\* anime (the same request URL), whatever their origin and certainties.
C9_PoolHasNoDuplicateAnime ==
    \A x, y \in query.results_pool : x.anime = y.anime => x = y

(***************************************************************************)
(* query.search_anime: the ranking of the results pool.                    *)
(***************************************************************************)

\* The most results in the pool that is ranked, and the largest title (in
\* the order of the title strings), episode count and source count.
MaxPool == 3
MaxTitle == 2
MaxEpisodeCount == 2
MaxSourceCount == 2

\* What search_result_score reads of a result: its certainty, the anime's
\* _title and _episode_count, and the source count (1 for a source anime,
\* len(uids) for an AnimeGroup).
Scored == [certainty : Certainties, title : 1..MaxTitle,
           episode_count : 1..MaxEpisodeCount, source_count : 1..MaxSourceCount]

\* attrgetter("certainty") as a sort key.
certainty_less(a, b) == a.certainty < b.certainty

\* search_result_score: the tuple (certainty, title, episode_count,
\* source_count), compared as Python compares tuples.
score_less(a, b) ==
    \/ a.certainty < b.certainty
    \/ a.certainty = b.certainty /\ a.title < b.title
    \/ a.certainty = b.certainty /\ a.title = b.title
       /\ a.episode_count < b.episode_count
    \/ a.certainty = b.certainty /\ a.title = b.title
       /\ a.episode_count = b.episode_count /\ a.source_count < b.source_count

\* The two sort keys of search_anime.
key_less(key, a, b) ==
    IF key = "certainty" THEN certainty_less(a, b) ELSE score_less(a, b)

\* sorted(..., reverse=True) and list.sort(reverse=True) are stable: greater
\* keys first, equal keys in their former order.
insert_stable(sorted, x, key) ==
    LET n == Cardinality({i \in 1..Len(sorted) : ~key_less(key, sorted[i], x)})
    IN SubSeq(sorted, 1, n) \o <<x>> \o SubSeq(sorted, n + 1, Len(sorted))

RECURSIVE sorted_reverse(_, _)
sorted_reverse(list, key) ==
    IF list = <<>> THEN <<>>
    ELSE insert_stable(sorted_reverse(SubSeq(list, 1, Len(list) - 1), key),
                       list[Len(list)], key)

\* list[:n]
slice_to(list, n) == SubSeq(list, 1, Min2(n, Len(list)))

\* The orders in which a Python set may hand out its members: they depend
\* on the hashes and on the history of the insertions.
iteration_orders(pool) ==
    {f \in [1..Cardinality(pool) -> pool] : \A i, j \in DOMAIN f : i # j => f[i] # f[j]}

Range(list) == {list[i] : i \in DOMAIN list}

InitRanking ==
    /\ \E num \in 1..MaxNumResults, pool \in SUBSET Scored :
          /\ Cardinality(pool) <= MaxPool
          /\ ranking = [pc |-> "pool", num_results |-> num, results_pool |-> pool,
                        results |-> <<>>]
    /\ episode = Idle /\ response = Idle /\ stream = Idle /\ search = Idle
    /\ query = Idle
    /\ grouping = Idle /\ medium_group = Idle /\ expiring = Idle
    /\ prop = Idle /\ request = Idle /\ url_pool = Idle
    /\ stateful = Idle /\ uid_parser = Idle /\ scraper = Idle
    /\ collection = Idle /\ staggered = Idle /\ ref_counter = Idle
    /\ LaterIdle

notRanking == <<episode, response, stream, search, query,
    grouping, medium_group, expiring, prop, request, url_pool,
    stateful, uid_parser, scraper, collection, staggered, ref_counter, later_objects>>

\* results = sorted(results_pool, key=attrgetter("certainty"), reverse=True)[:num_results]
SortByCertainty ==
    /\ ranking.pc = "pool"
    /\ \E order \in iteration_orders(ranking.results_pool) :
          ranking' = [ranking EXCEPT
              !.pc = "sliced",
              !.results = slice_to(sorted_reverse(order, "certainty"), ranking.num_results)]
    /\ UNCHANGED notRanking

\* The results are preloaded, then results.sort(key=search_result_score,
\* reverse=True) and the list is returned.
SortByScore ==
    /\ ranking.pc = "sliced"
    /\ ranking' = [ranking EXCEPT
           !.pc = "returned", !.results = sorted_reverse(@, "score")]
    /\ UNCHANGED notRanking

NextRanking ==
    \/ SortByCertainty
    \/ SortByScore

SpecRanking == InitRanking /\ [][NextRanking]_vars

\* C10: for a given pool the returned list does not depend on the order in
\* which the results arrived: it is sorted by (certainty, title,
\* episode count, source count), and no dropped result ranks above a
\* returned one under that key.
C10_RankingIndependentOfArrival ==
    ranking.pc = "returned" =>
        /\ \A i, j \in DOMAIN ranking.results :
              i < j => ~score_less(ranking.results[i], ranking.results[j])
        /\ \A d \in ranking.results_pool \ Range(ranking.results) :
              \A r \in Range(ranking.results) : ~score_less(r, d)

(***************************************************************************)
(* anime.group: AnimeGroup.could_contain and group_animes.                 *)
(* UID.create_medium_id is read as UID.create_media_id, the only function  *)
(* of that kind uid.py defines.                                            *)
(***************************************************************************)

\* The most animes handed to group_animes, the sources they come from and
\* the largest episode count.
MaxInputs == 3
NGroupSources == 3
MaxEpisodes == 3

\* The (language, is_dub, media_id) of the animes: one key and the three
\* that differ from it in one part.
GroupKeys ==
    { [language |-> "en", is_dub |-> FALSE, media_id |-> "a"],
      [language |-> "de", is_dub |-> FALSE, media_id |-> "a"],
      [language |-> "en", is_dub |-> TRUE, media_id |-> "a"],
      [language |-> "en", is_dub |-> FALSE, media_id |-> "b"] }

\* A preloaded SourceAnime.
GroupInputs ==
    { [language |-> k.language, is_dub |-> k.is_dub, media_id |-> k.media_id,
       source_id |-> src, episode_count |-> n] :
      k \in GroupKeys, src \in 1..NGroupSources, n \in 0..MaxEpisodes }

Min(S) == CHOOSE x \in S : \A y \in S : x <= y

\* SourceAnime.id: UID.create(ANIME, media_id, source_id, language, is_dub)
anime_uid(anime) ==
    <<anime.media_id, anime.source_id, anime.language, anime.is_dub>>

\* get_from_all("episode_count") over the members of a group: they were
\* preloaded, so every read ends in its first step and all are returned.
get_from_all_episode_count(g) ==
    [i \in DOMAIN g.animes |-> g.animes[i].episode_count]

\* could_contain with the window of the specification,
\* [min - 2, max + 2].
could_contain_wide(g, anime) ==
    /\ g.language = anime.language
    /\ g.is_dub = anime.is_dub
    /\ g.media_id = anime.media_id
    /\ LET episode_counts == get_from_all_episode_count(g)
       IN episode_counts # <<>> =>
             /\ Min(Range(episode_counts)) - 2 <= anime.episode_count
             /\ anime.episode_count <= Max(Range(episode_counts)) + 2

\* AnimeGroup.could_contain
could_contain(g, anime) ==
    IF g.language # anime.language THEN FALSE
    ELSE IF g.is_dub # anime.is_dub THEN FALSE
    ELSE IF g.media_id # anime.media_id THEN FALSE
    ELSE LET episode_counts == get_from_all_episode_count(g)
         IN IF episode_counts = <<>> THEN TRUE
            ELSE LET real_max_ep_count == Max(Range(episode_counts))
                     real_min_ep_count == Min(Range(episode_counts))
                     max_ep_count == Max2(real_max_ep_count, real_min_ep_count + 2)
                     min_ep_count == Min2(real_min_ep_count, real_max_ep_count - 2)
                 IN min_ep_count <= anime.episode_count
                    /\ anime.episode_count <= max_ep_count

\* AnimeGroup.add_anime
add_anime(g, anime) ==
    IF \E i \in DOMAIN g.uids : g.uids[i] = anime_uid(anime) THEN g
    ELSE [g EXCEPT !.uids = Append(@, anime_uid(anime)),
                   !.animes = Append(@, anime)]

\* AnimeGroup([auid], title, language, is_dub, animes=[anime])
AnimeGroup(anime) ==
    [uids |-> <<anime_uid(anime)>>, language |-> anime.language,
     is_dub |-> anime.is_dub, media_id |-> anime.media_id,
     animes |-> <<anime>>]

\* The loop `for group in groups` of group_worker that goes on after a
\* match although unique_groups is set.
RECURSIVE for_groups_no_break(_, _, _, _, _)
for_groups_no_break(groups, i, anime, unique_groups, found_group) ==
    IF i > Len(groups) THEN [groups |-> groups, found_group |-> found_group]
    ELSE IF could_contain(groups[i], anime)
         THEN for_groups_no_break([groups EXCEPT ![i] = add_anime(@, anime)],
                                  i + 1, anime, unique_groups, TRUE)
         ELSE for_groups_no_break(groups, i + 1, anime, unique_groups, found_group)

\* The loop `for group in groups` of group_worker, from the i-th group on.
RECURSIVE for_groups(_, _, _, _, _)
for_groups(groups, i, anime, unique_groups, found_group) ==
    IF i > Len(groups) THEN [groups |-> groups, found_group |-> found_group]
    ELSE IF could_contain(groups[i], anime)
         THEN LET added == [groups EXCEPT ![i] = add_anime(@, anime)]
              IN IF unique_groups
                 THEN [groups |-> added, found_group |-> TRUE]
                 ELSE for_groups(added, i + 1, anime, unique_groups, TRUE)
         ELSE for_groups(groups, i + 1, anime, unique_groups, found_group)

\* `processed` is the record of what group_worker did: each anime it took
\* from the queue, with the groups as they were when it took it.
InitGrouping ==
    /\ \E unique_groups \in BOOLEAN :
          grouping = [pc |-> "preloading", unique_groups |-> unique_groups,
                      seen |-> {}, preload_queue |-> <<>>, groups |-> <<>>,
                      processed |-> <<>>]
    /\ episode = Idle /\ response = Idle /\ stream = Idle /\ search = Idle
    /\ query = Idle /\ ranking = Idle
    /\ medium_group = Idle /\ expiring = Idle
    /\ prop = Idle /\ request = Idle /\ url_pool = Idle
    /\ stateful = Idle /\ uid_parser = Idle /\ scraper = Idle
    /\ collection = Idle /\ staggered = Idle /\ ref_counter = Idle
    /\ LaterIdle

notGrouping == <<episode, response, stream, search, query, ranking,
    medium_group, expiring, prop, request, url_pool,
    stateful, uid_parser, scraper, collection, staggered, ref_counter, later_objects>>

\* preload_worker: the next anime of the input is preloaded and put on the
\* queue.  A uid names one anime: an anime that comes twice is the same
\* anime.
Preloaded(anime) ==
    /\ grouping.pc = "preloading"
    /\ Len(grouping.processed) + Len(grouping.preload_queue) < MaxInputs
    /\ \A other \in grouping.seen : anime_uid(other) = anime_uid(anime) => other = anime
    /\ grouping' = [grouping EXCEPT !.seen = @ \cup {anime},
                                    !.preload_queue = Append(@, anime)]
    /\ UNCHANGED notGrouping

\* preload_worker: the input is exhausted; group_animes goes on to
\* `await preload_queue.join()`.
PreloadDone ==
    /\ grouping.pc = "preloading"
    /\ grouping' = [grouping EXCEPT !.pc = "joining"]
    /\ UNCHANGED notGrouping

\* group_worker: one turn of `while True`.
GroupWorker ==
    /\ grouping.pc \in {"preloading", "joining"}
    /\ grouping.preload_queue # <<>>
    /\ LET anime == Head(grouping.preload_queue)
           looped == for_groups(grouping.groups, 1, anime, grouping.unique_groups, FALSE)
           groups == IF looped.found_group THEN looped.groups
                     ELSE Append(looped.groups, AnimeGroup(anime))
       IN grouping' = [grouping EXCEPT
              !.preload_queue = Tail(@),
              !.groups = groups,
              !.processed = Append(@, [anime |-> anime, groups |-> grouping.groups])]
    /\ UNCHANGED notGrouping

\* preload_queue.join() is over: the worker is cancelled and the groups
\* are returned.
GroupsReturned ==
    /\ grouping.pc = "joining"
    /\ grouping.preload_queue = <<>>
    /\ grouping' = [grouping EXCEPT !.pc = "returned"]
    /\ UNCHANGED notGrouping

NextGrouping ==
    \/ \E anime \in GroupInputs : Preloaded(anime)
    \/ PreloadDone
    \/ GroupWorker
    \/ GroupsReturned

SpecGrouping == InitGrouping /\ [][NextGrouping]_vars

\* The (group, anime) pairs could_contain was called on or would have been
\* called on: each anime taken from the queue with each group of that time.
SameKey(g, anime) ==
    /\ g.language = anime.language
    /\ g.is_dub = anime.is_dub
    /\ g.media_id = anime.media_id

CountsOf(g) == {g.animes[i].episode_count : i \in DOMAIN g.animes}

GroupsOf(uid) ==
    {i \in DOMAIN grouping.groups :
        \E j \in DOMAIN grouping.groups[i].uids : grouping.groups[i].uids[j] = uid}

MaxMedia == 3

\* The fields of a MediumData that the constructor compares.
MediumData ==
    [medium_type : {"a", "m"}, medium_id : {"x", "y"},
     language : {"en", "de"}, dubbed : BOOLEAN]

NoSource == "None"

\* UID.create(medium_type, medium_id, source, language, dubbed)
UID_create(medium_type, medium_id, source, language, dubbed) ==
    [medium_type |-> medium_type, medium_id |-> medium_id, source |-> source,
     language |-> language, dubbed |-> dubbed]

\* The loop body without the check of dubbed.
incompatible_key_but_dubbed(self, medium) ==
    IF medium.medium_type # self.medium_type THEN "medium type"
    ELSE IF medium.medium_id # self.medium_id THEN "medium id"
    ELSE IF medium.language # self.language THEN "language"
    ELSE ""

\* The first check of the loop body that a medium fails, "" if none.
incompatible_key(self, medium) ==
    IF medium.medium_type # self.medium_type THEN "medium type"
    ELSE IF medium.medium_id # self.medium_id THEN "medium id"
    ELSE IF medium.language # self.language THEN "language"
    ELSE IF medium.dubbed # self.dubbed THEN "dubbed"
    ELSE ""

\* `for medium in media_iter`: the key of the first ValueError, "" if the
\* loop ends.
RECURSIVE for_media(_, _, _)
for_media(self, media, i) ==
    IF i > Len(media) THEN ""
    ELSE IF incompatible_key(self, media[i]) # "" THEN incompatible_key(self, media[i])
    ELSE for_media(self, media, i + 1)

\* MediumGroup(media): the group, or the ValueError it raises.
MediumGroup_init(media) ==
    IF media = <<>>
    THEN [pc |-> "raised", media |-> media, error |-> "ValueError",
          message |-> "Media must not be empty", key |-> ""]
    ELSE LET medium == media[1]
             self == [medium_type |-> medium.medium_type, medium_id |-> medium.medium_id,
                      language |-> medium.language, dubbed |-> medium.dubbed]
             key == for_media(self, media, 2)
         IN IF key # ""
            THEN [pc |-> "raised", media |-> media, error |-> "ValueError",
                  message |-> "Provided media is not compatible!", key |-> key]
            ELSE [pc |-> "constructed", media |-> media,
                  medium_type |-> self.medium_type, medium_id |-> self.medium_id,
                  language |-> self.language, dubbed |-> self.dubbed,
                  uid |-> UID_create(self.medium_type, self.medium_id, NoSource,
                                     self.language, self.dubbed)]

InitMediumGroup ==
    /\ \E n \in 0..MaxMedia : \E media \in [1..n -> MediumData] :
          medium_group = [pc |-> "called", media |-> media]
    /\ episode = Idle /\ response = Idle /\ stream = Idle /\ search = Idle
    /\ query = Idle /\ ranking = Idle
    /\ grouping = Idle /\ expiring = Idle
    /\ prop = Idle /\ request = Idle /\ url_pool = Idle
    /\ stateful = Idle /\ uid_parser = Idle /\ scraper = Idle
    /\ collection = Idle /\ staggered = Idle /\ ref_counter = Idle
    /\ LaterIdle

notMediumGroup == <<episode, response, stream, search, query, ranking,
    grouping, expiring, prop, request, url_pool,
    stateful, uid_parser, scraper, collection, staggered, ref_counter, later_objects>>

\* MediumGroup.__init__
Construct ==
    /\ medium_group.pc = "called"
    /\ medium_group' = MediumGroup_init(medium_group.media)
    /\ UNCHANGED notMediumGroup

NextMediumGroup ==
    \/ Construct

SpecMediumGroup == InitMediumGroup /\ [][NextMediumGroup]_vars

AllAgree(media) ==
    \A i, j \in DOMAIN media : media[i] = media[j]

\* C13 as stated: the construction succeeds only for at least one medium
\* and media that agree on (medium_type, medium_id, language, dubbed), and
\* fails with the incompatible-media error otherwise; a constructed group
\* has the key of all its media and a uid without source.
C13_FailsWithIncompatibleMedia ==
    /\ medium_group.pc = "constructed" =>
          /\ medium_group.media # <<>> /\ AllAgree(medium_group.media)
          /\ medium_group.uid.source = NoSource
    /\ medium_group.pc = "raised" =>
          medium_group.message = "Provided media is not compatible!"
    /\ medium_group.pc \in {"constructed", "raised"} =>
          (medium_group.pc = "constructed" <=>
              medium_group.media # <<>> /\ AllAgree(medium_group.media))

\* C13 amended: the construction succeeds iff there is at least one medium
\* and all media agree on the key; without media it fails with the
\* ValueError "Media must not be empty", with media that disagree with the
\* incompatible-media ValueError; a constructed group has the key of all
\* its media and a uid without source.
C13_FailsEmptyOrIncompatible ==
    /\ medium_group.pc = "constructed" =>
          /\ medium_group.media # <<>> /\ AllAgree(medium_group.media)
          /\ \A i \in DOMAIN medium_group.media :
                medium_group.media[i] =
                    [medium_type |-> medium_group.medium_type,
                     medium_id |-> medium_group.medium_id,
                     language |-> medium_group.language,
                     dubbed |-> medium_group.dubbed]
          /\ medium_group.uid.source = NoSource
    /\ medium_group.pc = "raised" =>
          /\ medium_group.error = "ValueError"
          /\ medium_group.message = "Media must not be empty" <=> medium_group.media = <<>>
          /\ medium_group.message = "Provided media is not compatible!" <=>
                (medium_group.media # <<>> /\ ~AllAgree(medium_group.media))

\* A construction from media that differ in dubbed only has failed with
\* the incompatible-media error.
C13_Witness ==
    /\ medium_group.pc = "raised"
    /\ medium_group.key = "dubbed"
    /\ medium_group.message = "Provided media is not compatible!"
    /\ Len(medium_group.media) = MaxMedia

(***************************************************************************)
(* stateful.Expiring: the expiry of the CHANGING_ATTRS of one object.      *)
(***************************************************************************)

\* The number of CHANGING_ATTRS of the class (an Episode has five), the
\* number of values the scraped page goes through, and the most
\* computations of one attribute.
NChanging == 2
NVersions == 2
MaxComputations == 2

CHANGING_ATTRS == 1..NChanging

\* A cached property of the class that CHANGING_ATTRS does not name.
STATIC_ATTR == 0

ExpiringAttrs == CHANGING_ATTRS \cup {STATIC_ATTR}

\* Expiring.__getattribute__ that deletes the cache of the attribute read
\* only.
getattribute_delete_one(self, name) ==
    IF name \in CHANGING_ATTRS /\ update_due(self)
    THEN [self EXCEPT !.age = 0, !.cache[name] = Unset]
    ELSE self

\* Expiring.__getattribute__: for a name in CHANGING_ATTRS, _update is
\* read; when it is true it has set last_update to now, and the cache of
\* every CHANGING_ATTR is deleted.
getattribute(self, name) ==
    IF name \in CHANGING_ATTRS /\ update_due(self)
    THEN [self EXCEPT !.age = 0,
                      !.cache = [a \in ExpiringAttrs |->
                                   IF a \in CHANGING_ATTRS THEN Unset ELSE @[a]]]
    ELSE self

\* cached_property.getter: the cached value, or the value computed now and
\* stored.
cached_getter(self, name) ==
    IF self.cache[name] # Unset
    THEN [self EXCEPT !.returned = self.cache[name][1]]
    ELSE [self EXCEPT !.cache[name] = Cached(self.page),
                      !.computations[name] = @ + 1,
                      !.returned = self.page]

InitExpiring ==
    /\ \E page \in 1..NVersions :
          expiring = [pc |-> "idle", age |-> 0, page |-> page, returned |-> 0,
                      cache |-> [a \in ExpiringAttrs |-> Unset],
                      computations |-> [a \in ExpiringAttrs |-> 0]]
    /\ episode = Idle /\ response = Idle /\ stream = Idle /\ search = Idle
    /\ query = Idle /\ ranking = Idle
    /\ grouping = Idle /\ medium_group = Idle
    /\ prop = Idle /\ request = Idle /\ url_pool = Idle
    /\ stateful = Idle /\ uid_parser = Idle /\ scraper = Idle
    /\ collection = Idle /\ staggered = Idle /\ ref_counter = Idle
    /\ LaterIdle

notExpiring == <<episode, response, stream, search, query, ranking,
    grouping, medium_group, prop, request, url_pool,
    stateful, uid_parser, scraper, collection, staggered, ref_counter, later_objects>>

\* `await obj.<name>`: __getattribute__, then the getter of the property.
ReadAttr(name) ==
    /\ LET self == getattribute(expiring, name)
       IN /\ self.cache[name] = Unset => self.computations[name] < MaxComputations
          /\ expiring' = cached_getter(self, name)
    /\ UNCHANGED notExpiring

\* Time passes.
ExpiringTimePasses ==
    /\ expiring.age < AgeCap
    /\ expiring' = [expiring EXCEPT !.age = @ + Tick]
    /\ UNCHANGED notExpiring

\* The scraped page changes.
PageChanges ==
    /\ \E page \in 1..NVersions :
          page # expiring.page /\ expiring' = [expiring EXCEPT !.page = page]
    /\ UNCHANGED notExpiring

NextExpiring ==
    \/ \E name \in ExpiringAttrs : ReadAttr(name)
    \/ ExpiringTimePasses
    \/ PageChanges

SpecExpiring == InitExpiring /\ [][NextExpiring]_vars

\* C14: a read of a CHANGING_ATTR more than EXPIRE_TIME after last_update
\* discards the cached values of all CHANGING_ATTRS, sets last_update to
\* now and recomputes the attribute read; a read within EXPIRE_TIME returns
\* the cached value without computing.
C14_ExpiredReadRecomputes ==
    [][\A name \in CHANGING_ATTRS : ReadAttr(name) =>
          IF expiring.age > EXPIRE_TIME
          THEN /\ expiring'.age = 0
               /\ \A other \in CHANGING_ATTRS \ {name} : expiring'.cache[other] = Unset
               /\ expiring'.computations[name] = expiring.computations[name] + 1
               /\ expiring'.cache[name] = Cached(expiring.page)
               /\ expiring'.returned = expiring.page
          ELSE /\ expiring'.age = expiring.age
               /\ expiring.cache[name] # Unset =>
                     /\ expiring'.computations = expiring.computations
                     /\ expiring'.cache = expiring.cache
                     /\ expiring'.returned = expiring.cache[name][1]]_vars

\* Both CHANGING_ATTRS were cached with the old page; after the expiry one
\* was read again: it holds the new page, the other is unset, and the
\* attribute outside CHANGING_ATTRS still holds the old page.
C14_Witness ==
    /\ expiring.age = 0
    /\ expiring.computations[1] = 2
    /\ expiring.computations[2] = 1
    /\ expiring.cache[1] = Cached(2)
    /\ expiring.cache[2] = Unset
    /\ expiring.cache[STATIC_ATTR] = Cached(1)

(***************************************************************************)
(* decorators.cached_property: concurrent reads of one cached field of one *)
(* instance.                                                               *)
(***************************************************************************)

\* The number of tasks that read the field.
NReaders == 3

Readers == 1..NReaders

\* No task holds the lock.
NoReader == 0

\* A getter that takes a lock of its own on every call.
lock_per_call(p) == TRUE

\* get_lock returns the one lock of the field; `async with lock` goes on
\* at once when it is not locked.
lock_free(p) == p.lock = NoReader

\* The body of `async with lock` up to the first await: the cached value
\* is returned, or func is started.  The value func computes is named
\* after the task that runs it.
getter_enter(p, r) ==
    IF p.cache # Unset
    THEN [p EXCEPT !.pc[r] = "returned", !.val[r] = p.cache[1], !.lock = NoReader]
    ELSE [p EXCEPT !.pc[r] = "computing", !.lock = r, !.started = @ + 1]

InitProp ==
    /\ prop = [pc |-> [r \in Readers |-> "idle"], val |-> [r \in Readers |-> 0],
               waited |-> [r \in Readers |-> FALSE],
               lock |-> NoReader, cache |-> Unset, started |-> 0, running |-> 0]
    /\ episode = Idle /\ response = Idle /\ stream = Idle /\ search = Idle
    /\ query = Idle /\ ranking = Idle
    /\ grouping = Idle /\ medium_group = Idle /\ expiring = Idle
    /\ request = Idle /\ url_pool = Idle
    /\ stateful = Idle /\ uid_parser = Idle /\ scraper = Idle
    /\ collection = Idle /\ staggered = Idle /\ ref_counter = Idle
    /\ LaterIdle

notProp == <<episode, response, stream, search, query, ranking,
    grouping, medium_group, expiring, request, url_pool,
    stateful, uid_parser, scraper, collection, staggered, ref_counter, later_objects>>

\* A task awaits the property: get_lock, then `async with lock`.
ReaderArrives(r) ==
    /\ prop.pc[r] = "idle"
    /\ prop' = IF lock_free(prop)
               THEN [getter_enter(prop, r) EXCEPT
                        !.running = IF prop.cache = Unset THEN @ + 1 ELSE @]
               ELSE [prop EXCEPT !.pc[r] = "waiting", !.waited[r] = TRUE]
    /\ UNCHANGED notProp

\* The lock was released and a waiting task gets it.
WaiterAcquires(r) ==
    /\ prop.pc[r] = "waiting"
    /\ prop.lock = NoReader
    /\ prop' = [getter_enter(prop, r) EXCEPT
                   !.running = IF prop.cache = Unset THEN @ + 1 ELSE @]
    /\ UNCHANGED notProp

\* func returns: the value is stored, the lock released, the value
\* returned.
ComputationReturns(r) ==
    /\ prop.pc[r] = "computing"
    /\ prop' = [prop EXCEPT !.pc[r] = "returned", !.val[r] = r,
                            !.cache = Cached(r), !.running = @ - 1,
                            !.lock = IF @ = r THEN NoReader ELSE @]
    /\ UNCHANGED notProp

\* func raises, or the task is cancelled while it awaits func: nothing is
\* stored, `async with` releases the lock, the exception goes to the
\* caller.
ComputationFails(r) ==
    /\ prop.pc[r] = "computing"
    /\ prop' = [prop EXCEPT !.pc[r] = "raised", !.running = @ - 1,
                            !.lock = IF @ = r THEN NoReader ELSE @]
    /\ UNCHANGED notProp

\* A task is cancelled while it waits for the lock.
WaiterCancelled(r) ==
    /\ prop.pc[r] = "waiting"
    /\ prop' = [prop EXCEPT !.pc[r] = "raised"]
    /\ UNCHANGED notProp

NextProp ==
    \/ \E r \in Readers : ReaderArrives(r)
    \/ \E r \in Readers : WaiterAcquires(r)
    \/ \E r \in Readers : ComputationReturns(r)
    \/ \E r \in Readers : ComputationFails(r)
    \/ \E r \in Readers : WaiterCancelled(r)

SpecProp == InitProp /\ [][NextProp]_vars

\* C15 as stated: for concurrent reads of one cached field the computation
\* runs at most once, and a reader that waited on the lock observes the
\* cached value instead of computing.
C15_ComputedAtMostOnce ==
    /\ prop.started <= 1
    /\ \A r \in Readers :
          prop.waited[r] /\ prop.pc[r] = "returned" => prop.val[r] # r

\* C15 amended: at most one computation runs at a time and at most one
\* returns; every reader that returns has the value of that one, and a
\* reader that waited computes only if no computation has returned.
C15_OneComputationAtATime ==
    /\ prop.running <= 1
    /\ Cardinality({r \in Readers : prop.pc[r] = "computing"}) = prop.running
    /\ \A r \in Readers : prop.pc[r] = "returned" => prop.cache = Cached(prop.val[r])
    /\ Cardinality({r \in Readers : prop.pc[r] = "returned" /\ prop.val[r] = r}) <= 1
    /\ \A r \in Readers : prop.pc[r] = "computing" => prop.cache = Unset

\* A reader waited while another computed, and returned the value the
\* other computed; a third did the same after the value was cached.
C15_Witness ==
    /\ prop.started = 1
    /\ prop.pc[1] = "returned" /\ prop.val[1] = 1
    /\ prop.waited[2] /\ prop.pc[2] = "returned" /\ prop.val[2] = 1
    /\ ~prop.waited[3] /\ prop.pc[3] = "returned" /\ prop.val[3] = 1

(***************************************************************************)
(* request.Request: perform_request, the cached derivations response,      *)
(* head_response, success and head_success, and reset / reload.            *)
(***************************************************************************)

\* Request.__init__: max_retries: int = 5
max_retries == 5

\* What one staggered_request can end in: a response with a status, or an
\* exception of aiohttp.
Statuses == {"200", "404", "405", "503"}
AttemptOutcomes ==
    Statuses \cup {"ClientConnectionError", "ClientProxyConnectionError",
                   "ClientPayloadError"}

\* The statuses perform_request tries again on.
RetryStatuses == {"403", "429", "503", "529"}

\* The subclasses of aiohttp.ClientError.
ClientErrors ==
    {"ClientConnectionError", "ClientProxyConnectionError", "ClientPayloadError",
     "ClientResponseError"}

NoResponse == "None"

Derivations == {"response", "head_response", "success", "head_success"}

\* ClientResponse.raise_for_status raises ClientResponseError for 400 and
\* above.
raises_for_status(status) == status # "200"

\* `except (ClientError, asyncio.TimeoutError)`: perform_request raises the
\* builtin TimeoutError, which is asyncio.TimeoutError only from
\* Python 3.11 on.
caught(req, exc) ==
    \/ exc \in ClientErrors
    \/ exc = "TimeoutError" /\ req.timeout_is_builtin

\* Request.state: the keys with a true value.
state(req) == IF req.use_proxy THEN [use_proxy |-> TRUE] ELSE [none |-> TRUE]

\* `last` is the record of the last read that ended: a response is
\* written down as its status, a boolean as Python prints it.
bool_repr(value) == IF value THEN "True" ELSE "False"

Returned(req, op, value) ==
    [req EXCEPT !.pc = "idle", !.op = "none",
                !.last = [op |-> op, kind |-> "returned", value |-> value]]

Raised(req, op, exc) ==
    [req EXCEPT !.pc = "idle", !.op = "none",
                !.last = [op |-> op, kind |-> "raised", value |-> exc]]

\* head_success once head_response gave it a response.
head_success_with(req, status) ==
    IF status = "405"
    THEN \* `return await self.head_success`: the getter of head_success is
         \* entered again while this call holds its lock.
         [req EXCEPT !.pc = "idle", !.op = "none", !.head_success_lock = "awaiting_self",
                     !.last = [op |-> "head_success", kind |-> "blocked", value |-> "405"]]
    ELSE Returned([req EXCEPT !.cache.head_success = Cached(~raises_for_status(status))],
                  "head_success", bool_repr(~raises_for_status(status)))

\* success once response gave it a response.
success_with(req, status) ==
    Returned([req EXCEPT !.cache.success = Cached(~raises_for_status(status))],
             "success", bool_repr(~raises_for_status(status)))

\* perform_request returned resp to the derivation that called it: the
\* derivation is cached and the read that awaited it goes on.
perform_returned(req, status) ==
    LET cached == [req EXCEPT !.cache[req.deriv] = Cached(status),
                              !.fetched[req.deriv] = @ + 1]
    IN IF req.op = "success" THEN success_with(cached, status)
       ELSE IF req.op = "head_success" THEN head_success_with(cached, status)
       ELSE Returned(cached, req.op, status)

\* perform_request raised: the derivation caches nothing; success and
\* head_success return False for what they catch.
perform_raised(req, exc) ==
    IF req.op \in {"success", "head_success"} /\ caught(req, exc)
    THEN Returned([req EXCEPT !.cache[req.op] = Cached(FALSE)], req.op, bool_repr(FALSE))
    ELSE Raised(req, req.op, exc)

\* After the loop of perform_request.
after_loop(req) ==
    IF req.resp = NoResponse THEN perform_raised(req, "TimeoutError")
    ELSE perform_returned(req, req.resp)

\* perform_request(method) called by a derivation for a read.
perform_request(req, op, deriv, method) ==
    LET called == [req EXCEPT !.op = op, !.deriv = deriv, !.method = method,
                              !.resp = NoResponse, !.fetch_attempts = 0]
    IN IF called.retry_count < max_retries
       THEN [called EXCEPT !.pc = "fetching"]
       ELSE after_loop([called EXCEPT !.read_without_fetch = TRUE])

\* `failed_before` and `last_attempt` are the record of the attempts of
\* the Request: whether one has ended in a connection error or a retry
\* status, and how the last one was sent.

\* One turn of the loop of perform_request that does not turn to the proxy
\* after a connection error.
attempt_keeping_route(req, outcome) ==
    LET counted == [req EXCEPT !.retry_count = @ + 1, !.fetch_attempts = @ + 1,
                        !.last_attempt = [proxy |-> req.use_proxy, outcome |-> outcome,
                                          after_failure |-> req.failed_before],
                        !.failed_before = @ \/ outcome \in RetryStatuses
                                            \/ outcome = "ClientConnectionError"]
    IN IF outcome \in RetryStatuses
       THEN [counted EXCEPT !.resp = outcome, !.use_proxy = TRUE, !.method = "get"]
       ELSE IF outcome \in Statuses THEN [counted EXCEPT !.resp = outcome]
       ELSE counted

\* One turn of the loop of perform_request up to `continue` or `break`.
attempt(req, outcome) ==
    LET counted == [req EXCEPT !.retry_count = @ + 1, !.fetch_attempts = @ + 1,
                        !.last_attempt = [proxy |-> req.use_proxy, outcome |-> outcome,
                                          after_failure |-> req.failed_before],
                        !.failed_before = @ \/ outcome \in RetryStatuses
                                            \/ outcome = "ClientConnectionError"]
    IN IF outcome = "ClientProxyConnectionError" THEN counted
       ELSE IF outcome = "ClientConnectionError" THEN [counted EXCEPT !.use_proxy = TRUE]
       ELSE IF outcome \in RetryStatuses
            THEN [counted EXCEPT !.resp = outcome, !.use_proxy = TRUE, !.method = "get"]
       ELSE IF outcome \in Statuses THEN [counted EXCEPT !.resp = outcome]
       ELSE counted

InitRequest ==
    /\ \E use_proxy \in BOOLEAN, timeout_is_builtin \in BOOLEAN :
          request = [pc |-> "idle", op |-> "none", deriv |-> "response", method |-> "get",
                     resp |-> NoResponse, retry_count |-> 0, use_proxy |-> use_proxy,
                     timeout_is_builtin |-> timeout_is_builtin,
                     cache |-> [d \in Derivations |-> Unset],
                     fetched |-> [d \in {"response", "head_response"} |-> 0],
                     fetch_attempts |-> 0, failed_before |-> FALSE,
                     last_attempt |-> [proxy |-> FALSE, outcome |-> "none",
                                       after_failure |-> FALSE],
                     read_without_fetch |-> FALSE,
                     head_success_lock |-> "free",
                     last |-> [op |-> "none", kind |-> "none", value |-> "none"]]
    /\ episode = Idle /\ response = Idle /\ stream = Idle /\ search = Idle
    /\ query = Idle /\ ranking = Idle
    /\ grouping = Idle /\ medium_group = Idle /\ expiring = Idle
    /\ prop = Idle /\ url_pool = Idle
    /\ stateful = Idle /\ uid_parser = Idle /\ scraper = Idle
    /\ collection = Idle /\ staggered = Idle /\ ref_counter = Idle
    /\ LaterIdle

notRequest == <<episode, response, stream, search, query, ranking,
    grouping, medium_group, expiring, prop, url_pool,
    stateful, uid_parser, scraper, collection, staggered, ref_counter, later_objects>>

\* `await req.response` (by text, json, bs or a scraper)
ReadResponse ==
    /\ request.pc = "idle"
    /\ request' = IF request.cache.response # Unset
                  THEN Returned(request, "response", request.cache.response[1])
                  ELSE perform_request(request, "response", "response", "get")
    /\ UNCHANGED notRequest

\* `await req.success`
ReadSuccess ==
    /\ request.pc = "idle"
    /\ request' = IF request.cache.success # Unset
                  THEN Returned(request, "success", bool_repr(request.cache.success[1]))
                  ELSE IF request.cache.response # Unset
                  THEN success_with(request, request.cache.response[1])
                  ELSE perform_request(request, "success", "response", "get")
    /\ UNCHANGED notRequest

\* `await req.head_success`: a caller that comes while the lock of
\* head_success is held waits for it.
ReadHeadSuccess ==
    /\ request.pc = "idle"
    /\ request.head_success_lock = "free"
    /\ request' = IF request.cache.head_success # Unset
                  THEN Returned(request, "head_success", bool_repr(request.cache.head_success[1]))
                  ELSE IF request.cache.head_response # Unset
                  THEN head_success_with(request, request.cache.head_response[1])
                  ELSE IF request.cache.response # Unset
                  THEN head_success_with(
                           [request EXCEPT !.cache.head_response = request.cache.response],
                           request.cache.response[1])
                  ELSE perform_request(request, "head_success", "head_response", "head")
    /\ UNCHANGED notRequest

\* staggered_request ends and perform_request runs up to the next
\* staggered_request or to its end.
Attempt(outcome) ==
    /\ request.pc = "fetching"
    /\ outcome = "ClientProxyConnectionError" => request.use_proxy
    /\ LET req == attempt(request, outcome)
       IN request' =
             IF outcome = "ClientPayloadError" THEN perform_raised(req, outcome)
             ELSE IF outcome \in Statuses \ RetryStatuses THEN perform_returned(req, outcome)
             ELSE IF req.retry_count < max_retries THEN req
             ELSE after_loop(req)
    /\ UNCHANGED notRequest

\* reset() / reload(): the caches of RESET_ATTRS are deleted.
Reset ==
    /\ request.pc = "idle"
    /\ request' = [request EXCEPT !.cache = [d \in Derivations |-> Unset],
                                  !.fetched = [d \in DOMAIN @ |-> 0]]
    /\ UNCHANGED notRequest

NextRequest ==
    \/ ReadResponse
    \/ ReadSuccess
    \/ ReadHeadSuccess
    \/ \E outcome \in AttemptOutcomes : Attempt(outcome)
    \/ Reset

SpecRequest == InitRequest /\ [][NextRequest]_vars

\* The scheduler runs every task that can take a step.
FairRequest == SpecRequest /\ WF_vars(NextRequest)

\* C16: between two resets each derivation is fetched at most once, and
\* after a reset the next read performs a new fetch.  `fetched` counts the
\* fetches of a derivation that gave a response since the last reset, and
\* read_without_fetch tells that a read of a derivation that was not cached
\* ended without an attempt.
C16_OneFetchPerReset ==
    /\ \A d \in {"response", "head_response"} : request.fetched[d] <= 1
    /\ ~request.read_without_fetch

\* C17: a fetch makes at most max_retries attempts; after an attempt that
\* ended in a connection error or a retry status every later attempt goes
\* through the proxy and the Request and its state report use_proxy; a
\* proxied attempt that succeeds gives the caller that response.
C17_ProxyAfterFailure ==
    /\ [](/\ request.fetch_attempts <= max_retries
          /\ request.last_attempt.after_failure => request.last_attempt.proxy
          /\ request.failed_before =>
                request.use_proxy /\ state(request) = [use_proxy |-> TRUE])
    /\ [][request.pc = "fetching" /\ request.use_proxy /\ Attempt("200") =>
             /\ request'.cache[request.deriv] = Cached("200")
             /\ request.op = "response" =>
                   request'.last = [op |-> "response", kind |-> "returned", value |-> "200"]
             /\ request'.use_proxy]_vars

\* A fetch without proxy ran into a connection error, its second attempt
\* went through the proxy and got 200, which is cached as the response.
C17_Witness ==
    /\ request.pc = "idle"
    /\ request.fetch_attempts = 2
    /\ request.last_attempt = [proxy |-> TRUE, outcome |-> "200", after_failure |-> TRUE]
    /\ request.cache.response = Cached("200")
    /\ request.last = [op |-> "response", kind |-> "returned", value |-> "200"]
    /\ state(request) = [use_proxy |-> TRUE]

\* C18: when the HEAD response has status 405, head_success eventually
\* returns a boolean.
C18_HeadFallsBackToGet ==
    (request.head_success_lock = "awaiting_self")
        ~> (request.cache.head_success # Unset)

\* C19: success and head_success never raise, whatever the fetch ends in.
C19_SuccessNeverRaises ==
    request.last.op \in {"success", "head_success"} => request.last.kind # "raised"

(***************************************************************************)
(* url_pool.UrlPool: concurrent readers of UrlPool.url.                    *)
(***************************************************************************)

\* The number of tasks that await pool.url.
NCallers == 2

\* UrlPool.__init__: ttl: int = 3600
ttl == 3600

Callers == 1..NCallers

\* The urls of the pool: one with a trailing slash, one without.
PoolUrls == {[host |-> 1, slashes |-> 1], [host |-> 2, slashes |-> 0]}

NoUrl == [host |-> 0, slashes |-> 0]

\* _next_update is kept as the time left until it; never set, it is
\* NoUpdate.  The document of the store is kept the same way.
NoUpdate == [set |-> FALSE, left |-> 0]
NextUpdate(left) == [set |-> TRUE, left |-> left]
NoDoc == [exists |-> FALSE, url |-> NoUrl, next_update |-> NoUpdate]

\* UrlPool.needs_update
needs_update(pool) == ~pool.next_update.set \/ pool.next_update.left < 0

\* A second check of needs_update that is left out: the pool is probed
\* after every load.
needs_update_after_fetch_always(pool) == TRUE

\* `if self.needs_update:` after fetch()
needs_update_after_fetch(pool) == needs_update(pool)

\* What the HEAD requests to one candidate end in: a status, or a
\* connection error on every attempt.
ProbeStatuses == {"200", "404", "405", "refused"}

\* Request.head_success of a candidate: a connection error on every attempt
\* makes perform_request raise the builtin TimeoutError, which the
\* `except (ClientError, asyncio.TimeoutError)` catches only where the two
\* are one class; a 405 awaits head_success from inside its own getter and
\* never returns; raise_for_status() raises for 404, which is caught.
probe_head_success(status, timeout_is_builtin) ==
    CASE status = "200" -> "True"
      [] status = "404" -> "False"
      [] status = "405" -> "hang"
      [] OTHER -> IF timeout_is_builtin THEN "False" ELSE "TimeoutError"

FirstResult(kind, url) == [kind |-> kind, url |-> url]

\* Request.first(requests) with timeout=None, by what it ends in; hs gives
\* what try_req of each request does.  After each wait one task of the
\* done set is looked at and the others of that set are not looked at
\* again: a request that passes is returned, an exception of try_req
\* leaves through .result(), a None goes on with the pending tasks.  So
\* every passing request can be the result and every exception can come
\* out; None comes out when no task is left, which needs tasks that all
\* complete and, unless there is none at all, one that gave None; and a
\* task that never completes is waited for when every other one gave None
\* or was done together with one that did.
first_kinds(hs) ==
    LET passing == {u \in DOMAIN hs : hs[u] = "True"}
        raising == {u \in DOMAIN hs : hs[u] = "TimeoutError"}
        hanging == {u \in DOMAIN hs : hs[u] = "hang"}
        failing == {u \in DOMAIN hs : hs[u] = "False"}
    IN (IF passing # {} THEN {"request"} ELSE {})
       \cup (IF raising # {} THEN {"TimeoutError"} ELSE {})
       \cup (IF hanging # {} /\ (failing # {} \/ passing \cup raising = {})
             THEN {"hang"} ELSE {})
       \cup (IF hanging = {} /\ (failing # {} \/ DOMAIN hs = {})
             THEN {"None"} ELSE {})

\* Request.first on the candidates of a pool, with the request returned.
first(outcomes, timeout_is_builtin) ==
    LET hs == [u \in DOMAIN outcomes |->
                  probe_head_success(outcomes[u], timeout_is_builtin)]
    IN {FirstResult("request", u) : u \in {v \in DOMAIN hs : hs[v] = "True"}}
       \cup {FirstResult(k, NoUrl) : k \in first_kinds(hs) \ {"request"}}

\* self.urls.insert(0, self.urls.pop(requests.index(req)))
move_to_front(urls, url) ==
    <<url>> \o SelectSeq(urls, LAMBDA u : u # url)

\* No candidate passes the HEAD probe.
no_pass(outcomes, timeout_is_builtin) ==
    \A u \in DOMAIN outcomes : probe_head_success(outcomes[u], timeout_is_builtin) # "True"

\* UrlPool.prepare_url
prepare_url(pool, url) == IF pool.strip_slash THEN [url EXCEPT !.slashes = 0] ELSE url

\* `return self.prepare_url(self._url)` and the end of `async with`.
pool_return(pool, c) ==
    [pool EXCEPT !.pc[c] = "returned", !.val[c] = prepare_url(pool, pool.url),
                 !.lock = NoReader]

\* The body of `async with self._lock` up to its first await.
pool_enter(pool, c) ==
    LET entered == [pool EXCEPT !.lock = c, !.fresh_at_entry[c] = ~needs_update(pool),
                                !.entry_url[c] = pool.url]
    IN IF needs_update(pool) THEN [entered EXCEPT !.pc[c] = "fetch", !.loaded[c] = TRUE]
       ELSE pool_return(entered, c)

\* The passing of a Tick for an expiry.
later(next_update) ==
    IF next_update.set /\ next_update.left >= 0
    THEN [next_update EXCEPT !.left = @ - Tick]
    ELSE next_update

InitUrlPool ==
    /\ \E strip_slash \in BOOLEAN, timeout_is_builtin \in BOOLEAN :
       \E doc \in {NoDoc} \cup {[exists |-> TRUE, url |-> u, next_update |-> NextUpdate(left)] :
                                u \in PoolUrls, left \in {ttl, 0 - Tick}} :
          url_pool = [pc |-> [c \in Callers |-> "idle"],
                      val |-> [c \in Callers |-> NoUrl],
                      waited |-> [c \in Callers |-> FALSE],
                      loaded |-> [c \in Callers |-> FALSE],
                      probed |-> [c \in Callers |-> FALSE],
                      fresh_at_entry |-> [c \in Callers |-> FALSE],
                      entry_url |-> [c \in Callers |-> NoUrl],
                      lock |-> NoReader, strip_slash |-> strip_slash,
                      url |-> NoUrl, next_update |-> NoUpdate, doc |-> doc,
                      early_probe |-> FALSE,
                      urls |-> <<[host |-> 1, slashes |-> 1], [host |-> 2, slashes |-> 0]>>,
                      timeout_is_builtin |-> timeout_is_builtin,
                      exc |-> [c \in Callers |-> "None"],
                      no_pass |-> [c \in Callers |-> FALSE]]
    /\ episode = Idle /\ response = Idle /\ stream = Idle /\ search = Idle
    /\ query = Idle /\ ranking = Idle
    /\ grouping = Idle /\ medium_group = Idle /\ expiring = Idle
    /\ prop = Idle /\ request = Idle
    /\ stateful = Idle /\ uid_parser = Idle /\ scraper = Idle
    /\ collection = Idle /\ staggered = Idle /\ ref_counter = Idle
    /\ LaterIdle

notUrlPool == <<episode, response, stream, search, query, ranking,
    grouping, medium_group, expiring, prop, request,
    stateful, uid_parser, scraper, collection, staggered, ref_counter, later_objects>>

\* A task awaits pool.url.
CallerArrives(c) ==
    /\ url_pool.pc[c] = "idle"
    /\ url_pool' = IF url_pool.lock = NoReader THEN pool_enter(url_pool, c)
                   ELSE [url_pool EXCEPT !.pc[c] = "waiting", !.waited[c] = TRUE]
    /\ UNCHANGED notUrlPool

\* The lock was released and a waiting task gets it.
CallerAcquires(c) ==
    /\ url_pool.pc[c] = "waiting"
    /\ url_pool.lock = NoReader
    /\ url_pool' = pool_enter(url_pool, c)
    /\ UNCHANGED notUrlPool

\* fetch() ends: the document of the store, if there is one, replaces url
\* and next_update; then the pool is probed if it still needs an update.
FetchDone(c) ==
    /\ url_pool.pc[c] = "fetch"
    /\ LET fetched == IF url_pool.doc.exists
                      THEN [url_pool EXCEPT !.url = url_pool.doc.url,
                                            !.next_update = url_pool.doc.next_update]
                      ELSE url_pool
       IN url_pool' = IF needs_update_after_fetch(fetched)
                      THEN [fetched EXCEPT !.pc[c] = "update_url", !.probed[c] = TRUE,
                                           !.early_probe = @ \/ ~needs_update(fetched)]
                      ELSE pool_return(fetched, c)
    /\ UNCHANGED notUrlPool

\* update_url(): Request.first returned a request that passed.  Its url
\* becomes the url of the pool and it moves to the front of urls; then
\* next_update = now + ttl, then upload().
ProbeSucceeds(c, url) ==
    /\ url_pool.pc[c] = "update_url"
    /\ \E outcomes \in [PoolUrls -> ProbeStatuses] :
          /\ FirstResult("request", url) \in first(outcomes, url_pool.timeout_is_builtin)
          /\ url_pool' = [url_pool EXCEPT !.pc[c] = "upload", !.url = url,
                                          !.urls = move_to_front(@, url),
                                          !.next_update = NextUpdate(ttl),
                                          !.no_pass[c] = FALSE]
    /\ UNCHANGED notUrlPool

\* update_url(): Request.first returned None; GrobberException leaves
\* `async with`.
ProbeFails(c) ==
    /\ url_pool.pc[c] = "update_url"
    /\ \E outcomes \in [PoolUrls -> ProbeStatuses] :
          /\ FirstResult("None", NoUrl) \in first(outcomes, url_pool.timeout_is_builtin)
          /\ url_pool' = [url_pool EXCEPT !.pc[c] = "raised", !.lock = NoReader,
                                          !.exc[c] = "GrobberException",
                                          !.no_pass[c] =
                                              no_pass(outcomes, url_pool.timeout_is_builtin)]
    /\ UNCHANGED notUrlPool

\* update_url(): the TimeoutError of a candidate's head_success leaves
\* Request.first, update_url and `async with`.
ProbeRaises(c) ==
    /\ url_pool.pc[c] = "update_url"
    /\ \E outcomes \in [PoolUrls -> ProbeStatuses] :
          /\ FirstResult("TimeoutError", NoUrl) \in first(outcomes, url_pool.timeout_is_builtin)
          /\ url_pool' = [url_pool EXCEPT !.pc[c] = "raised", !.lock = NoReader,
                                          !.exc[c] = "TimeoutError",
                                          !.no_pass[c] =
                                              no_pass(outcomes, url_pool.timeout_is_builtin)]
    /\ UNCHANGED notUrlPool

\* update_url(): every other candidate failed and one never completes;
\* Request.first waits for it with the lock of the pool held.
ProbeHangs(c) ==
    /\ url_pool.pc[c] = "update_url"
    /\ \E outcomes \in [PoolUrls -> ProbeStatuses] :
          /\ FirstResult("hang", NoUrl) \in first(outcomes, url_pool.timeout_is_builtin)
          /\ url_pool' = [url_pool EXCEPT !.pc[c] = "hung",
                                          !.no_pass[c] =
                                              no_pass(outcomes, url_pool.timeout_is_builtin)]
    /\ UNCHANGED notUrlPool

\* upload() ends: the document is written and the url returned.
UploadDone(c) ==
    /\ url_pool.pc[c] = "upload"
    /\ url_pool' = pool_return(
           [url_pool EXCEPT !.doc = [exists |-> TRUE, url |-> url_pool.url,
                                     next_update |-> url_pool.next_update]], c)
    /\ UNCHANGED notUrlPool

\* Time passes.
PoolTimePasses ==
    /\ url_pool' = [url_pool EXCEPT !.next_update = later(@),
                                    !.doc.next_update = later(@)]
    /\ url_pool' # url_pool
    /\ UNCHANGED notUrlPool

\* `async with self._lock` without its __aexit__: the lock stays with the
\* task that leaves.
aexit_skipped(p) == p

\* Lock.__aexit__ of `async with self._lock`: release().
aexit(p) == [p EXCEPT !.lock = NoReader]

\* The task is cancelled inside `async with`: CancelledError is raised at
\* the await it is suspended in (fetch, Request.first or head_response in
\* update_url - a probe that never completes included -, or upload) and
\* leaves `async with`.  A cancelled upload() may have reached the store.
HolderCancelled(c, written) ==
    /\ url_pool.pc[c] \in {"fetch", "update_url", "upload", "hung"}
    /\ written => url_pool.pc[c] = "upload"
    /\ url_pool' = aexit([url_pool EXCEPT
                             !.pc[c] = "cancelled", !.exc[c] = "CancelledError",
                             !.doc = IF written
                                     THEN [exists |-> TRUE, url |-> url_pool.url,
                                           next_update |-> url_pool.next_update]
                                     ELSE @])
    /\ UNCHANGED notUrlPool

\* The task is cancelled while it waits for the lock.
PoolWaiterCancelled(c) ==
    /\ url_pool.pc[c] = "waiting"
    /\ url_pool' = [url_pool EXCEPT !.pc[c] = "cancelled", !.exc[c] = "CancelledError"]
    /\ UNCHANGED notUrlPool

NextUrlPool ==
    \/ \E c \in Callers : CallerArrives(c)
    \/ \E c \in Callers : CallerAcquires(c)
    \/ \E c \in Callers : FetchDone(c)
    \/ \E c \in Callers, url \in PoolUrls : ProbeSucceeds(c, url)
    \/ \E c \in Callers : ProbeFails(c)
    \/ \E c \in Callers : ProbeRaises(c)
    \/ \E c \in Callers : ProbeHangs(c)
    \/ \E c \in Callers : UploadDone(c)
    \/ PoolTimePasses
    \/ \E c \in Callers, written \in BOOLEAN : HolderCancelled(c, written)
    \/ \E c \in Callers : PoolWaiterCancelled(c)

SpecUrlPool == InitUrlPool /\ [][NextUrlPool]_vars

\* C20: at most one caller is loading from the store or probing at a time;
\* a caller that finds the pool refreshed when it gets the mutex returns
\* the url of the pool without loading or probing; no probe starts while a
\* stored expiry has not passed.
C20_OneRefreshAtATime ==
    /\ Cardinality({c \in Callers : url_pool.pc[c] \in {"fetch", "update_url", "upload"}}) <= 1
    /\ \A c \in Callers : url_pool.pc[c] \in {"fetch", "update_url", "upload"} => url_pool.lock = c
    /\ \A c \in Callers :
          url_pool.pc[c] = "returned" /\ url_pool.fresh_at_entry[c] =>
              /\ ~url_pool.loaded[c] /\ ~url_pool.probed[c]
              /\ url_pool.val[c] = prepare_url(url_pool, url_pool.entry_url[c])
    /\ ~url_pool.early_probe
    /\ \A c \in Callers : url_pool.pc[c] = "update_url" => needs_update(url_pool)

\* The first caller loaded, probed and wrote the url with the slash; the
\* second waited on the mutex meanwhile and returned that url, stripped,
\* without a load or a probe.
C20_Witness ==
    /\ url_pool.strip_slash
    /\ url_pool.pc[1] = "returned" /\ url_pool.probed[1]
    /\ url_pool.url = [host |-> 1, slashes |-> 1]
    /\ url_pool.val[1] = [host |-> 1, slashes |-> 0]
    /\ url_pool.pc[2] = "returned" /\ url_pool.waited[2]
    /\ ~url_pool.loaded[2] /\ ~url_pool.probed[2]
    /\ url_pool.val[2] = [host |-> 1, slashes |-> 0]

\* C21: when no candidate passes the HEAD probe, the call raises
\* GrobberException, leaves url, expiry, candidate order and stored
\* document as they were, and releases the mutex with the pool still in
\* need of an update, so that a later call probes again.
C21_NoWorkingUrlRaisesAndReleases ==
    [][\A c \in Callers :
          (url_pool.pc[c] = "update_url" /\ url_pool'.pc[c] # "update_url"
             /\ url_pool'.no_pass[c]) =>
              /\ url_pool'.pc[c] = "raised"
              /\ url_pool'.exc[c] = "GrobberException"
              /\ url_pool'.url = url_pool.url
              /\ url_pool'.next_update = url_pool.next_update
              /\ url_pool'.urls = url_pool.urls
              /\ url_pool'.doc = url_pool.doc
              /\ url_pool'.lock = NoReader
              /\ needs_update(url_pool')]_vars

(***************************************************************************)
(* stateful.Stateful: state and from_state of Stream, Episode and          *)
(* SourceAnime, and Request.state / Request.from_state.                    *)
(***************************************************************************)

\* The objects of the earlier sections at rest.
EarlierIdle ==
    /\ episode = Idle /\ response = Idle /\ stream = Idle /\ search = Idle
    /\ query = Idle /\ ranking = Idle /\ grouping = Idle /\ medium_group = Idle
    /\ expiring = Idle /\ prop = Idle /\ request = Idle /\ url_pool = Idle

earlier == <<episode, response, stream, search, query, ranking, grouping,
             medium_group, expiring, prop, request, url_pool>>

\* The longest list of streams of an episode.
MaxStreams == 2

\* The raw urls of the requests; the second holds a placeholder of
\* _PROXY_DOMAINS.
RawUrls == 1..2
ProxiedUrl == 2

\* UrlFormatter.should_use_proxy
should_use_proxy(url) == url = ProxiedUrl

\* `if value` on a timeout: None and 0 are falsy.
TimeoutValues == {"None", "0", "10"}
timeout_truthy(t) == t \notin {"None", "0"}

\* Request.__init__: _use_proxy = use_proxy or should_use_proxy(url)
Requests ==
    {r \in [url : RawUrls, timeout : TimeoutValues, use_proxy : BOOLEAN] :
        should_use_proxy(r.url) => r.use_proxy}

\* Request.state: the keys whose value is truthy.  A key that is left out
\* carries the value state.get() gives for it.
Request_state(req) ==
    [keys |-> {"url"} \cup (IF timeout_truthy(req.timeout) THEN {"timeout"} ELSE {})
                      \cup (IF req.use_proxy THEN {"use_proxy"} ELSE {}),
     url |-> req.url,
     timeout |-> IF timeout_truthy(req.timeout) THEN req.timeout ELSE "None",
     use_proxy |-> req.use_proxy]

\* Request.from_state: cls(state["url"], timeout=state.get("timeout"),
\* use_proxy=state.get("use_proxy"))
Request_from_state(st) ==
    [url |-> st.url,
     timeout |-> IF "timeout" \in st.keys THEN st.timeout ELSE "None",
     use_proxy |-> (("use_proxy" \in st.keys) /\ st.use_proxy) \/ should_use_proxy(st.url)]

\* Two requests fetch alike: Request.__eq__ (the raw url with its params),
\* the route, and the timeout `self._timeout or <default>` gives.
request_equivalent(a, b) ==
    /\ a.url = b.url
    /\ a.use_proxy = b.use_proxy
    /\ (IF timeout_truthy(a.timeout) THEN a.timeout ELSE "None")
         = (IF timeout_truthy(b.timeout) THEN b.timeout ELSE "None")

\* The registered stream classes (STREAM_MAP), by __qualname__; the class
\* of a stream is the one whose can_handle accepts its url.
STREAM_MAP == {"RapidVideo", "Openload"}
stream_class(url) == IF url = 1 THEN "RapidVideo" ELSE "Openload"
stream_priority(cls) == IF cls = "Openload" THEN PRIORITY_OPENLOAD ELSE PRIORITY_DEFAULT

\* Expiring.__init__: self._last_update = datetime.now().  Objects are built
\* at Built and rehydrated at Rehydrated.
Built == 1
Rehydrated == 2

StreamRequest(url) == [url |-> url, timeout |-> "None", use_proxy |-> should_use_proxy(url)]

\* A Stream of one of the requests with what it has computed so far.
StreamObjsOf(requests) ==
    {[cls |-> stream_class(req.url), req |-> req, external |-> external,
      links |-> found, poster |-> poster, last_update |-> Cached(Built)] :
        req \in requests, external \in {Unset, Cached(TRUE)},
        found \in {Unset, Cached(<<>>), Cached(<<1>>)},
        poster \in {Unset, Cached("None"), Cached("poster")}}

\* The streams of an episode: Request(link) of a raw link.
StreamObjs == StreamObjsOf({StreamRequest(url) : url \in RawUrls})

\* None where a Stream is expected.
NoStream ==
    [cls |-> "None", req |-> StreamRequest(1), external |-> Unset, links |-> Unset,
     poster |-> Unset, last_update |-> Unset]

\* Stream.persist
persist(s) == FALSE

\* Stateful.qualcls: the module and the __qualname__
qualcls(cls) == <<"grobber.anime.streams", cls>>

\* Stateful.from_state: setattr(inst, "_" + key, value) for the keys of the
\* state; an attribute without a key stays as __init__ left it.
inject(fresh, slot) == IF slot = Unset THEN fresh ELSE slot

\* Stateful.state of a Stream: all its ATTRS are storable as they are.
Stream_state(s) ==
    [cls |-> qualcls(s.cls), req |-> Request_state(s.req), external |-> s.external,
     links |-> s.links, poster |-> s.poster, last_update |-> s.last_update]

\* Stateful.from_state of a Stream class
Stream_from_state(cls, data) ==
    [cls |-> cls, req |-> Request_from_state(data.req),
     external |-> inject(Unset, data.external), links |-> inject(Unset, data.links),
     poster |-> inject(Unset, data.poster),
     last_update |-> inject(Cached(Rehydrated), data.last_update)]

\* streams.load_stream
load_stream(data) ==
    LET name == data.cls[Len(data.cls)]
    IN IF name \in STREAM_MAP THEN Stream_from_state(name, data) ELSE NoStream

\* getattr(stream, "_links", True) and getattr(stream, "_poster", True) as
\* conditions
links_or_true(s) == s.links = Unset \/ Len(s.links[1]) > 0
poster_or_true(s) == s.poster = Unset \/ s.poster[1] # "None"

\* Episode.serialise_special("streams", value), every stream kept.
serialise_streams_all(value) == [i \in 1..Len(value) |-> Stream_state(value[i])]

\* Episode.serialise_special("streams", value)
serialise_streams(value) ==
    LET kept == SelectSeq(value, LAMBDA st : persist(st) \/ links_or_true(st) \/ poster_or_true(st))
    IN [i \in 1..Len(kept) |-> Stream_state(kept[i])]

\* Episode.deserialise_special("streams", value)
deserialise_streams(value) ==
    SelectSeq([i \in 1..Len(value) |-> load_stream(value[i])], LAMBDA st : st # NoStream)

\* check_container_bson of a list of streams: true of the empty list only.
check_container_bson_streams(value) == Len(value) = 0

\* A value of a state under its key or under key$state.
Plain(v) == Cached([special |-> FALSE, val |-> v])
Special(v) == Cached([special |-> TRUE, val |-> v])

\* Stateful.state of an Episode
Episode_state(e) ==
    [req |-> Request_state(e.req),
     streams |-> IF e.streams = Unset THEN Unset
                 ELSE IF check_container_bson_streams(e.streams[1]) THEN Plain(<<>>)
                 ELSE Special(serialise_streams(e.streams[1])),
     stream |-> IF e.stream = Unset THEN Unset
                ELSE IF e.stream[1] = NoStream THEN Plain(Stream_state(NoStream))
                ELSE Special(Stream_state(e.stream[1])),
     raw_streams |-> e.raw_streams, poster |-> e.poster, last_update |-> e.last_update]

\* Stateful.from_state of an Episode class
Episode_from_state(data) ==
    [req |-> Request_from_state(data.req),
     streams |-> IF data.streams = Unset THEN Unset
                 ELSE IF data.streams[1].special
                      THEN Cached(deserialise_streams(data.streams[1].val))
                      ELSE Cached(<<>>),
     stream |-> IF data.stream = Unset THEN Unset
                ELSE IF data.stream[1].special THEN Cached(load_stream(data.stream[1].val))
                     ELSE Cached(NoStream),
     raw_streams |-> inject(Unset, data.raw_streams), poster |-> inject(Unset, data.poster),
     last_update |-> inject(Cached(Rehydrated), data.last_update)]

\* The lists of at most n streams, in the order Episode.streams leaves them
\* in: sorted by PRIORITY, highest first.
StreamLists(n) ==
    {l \in UNION {[1..k -> StreamObjs] : k \in 0..n} :
        \A i \in 1..(Len(l) - 1) :
            stream_priority(l[i].cls) >= stream_priority(l[i + 1].cls)}

\* The values Episode.stream can have cached for a list of streams: None,
\* or a member that is external and has links.
stream_choices(streams) ==
    {Cached(NoStream)}
    \cup (IF streams = Unset THEN {}
          ELSE {Cached(streams[1][i]) : i \in
                   {j \in 1..Len(streams[1]) :
                       /\ streams[1][j].external = Cached(TRUE)
                       /\ streams[1][j].links = Cached(<<1>>)}})

\* An Episode with what it has computed so far, of at most n streams.
EpisodeObjs(n, requests) ==
    {[req |-> req, streams |-> streams, stream |-> st, raw_streams |-> raw,
      poster |-> poster, last_update |-> Cached(Built)] :
        req \in requests,
        streams \in {Unset} \cup {Cached(l) : l \in StreamLists(n)},
        st \in {Unset, Cached(NoStream)}, raw \in {Unset, Cached(<<1, 2>>)},
        poster \in {Unset, Cached("poster")}}
    \cup UNION {{[req |-> req, streams |-> Cached(l), stream |-> st,
                  raw_streams |-> Cached(<<1, 2>>), poster |-> Unset,
                  last_update |-> Cached(Built)] : st \in stream_choices(Cached(l))} :
                req \in requests, l \in StreamLists(n)}


\* languages.Language, an Enum: Language(value)
Language(value) == [enum |-> "Language", value |-> value]

\* str(i) of an episode index, and int(i) of it.
str(i) == IF i = 0 THEN "0" ELSE "1"
int(k) == IF k = "0" THEN 0 ELSE 1

\* A SourceAnime with what it has computed so far; its episodes are a dict
\* of index to Episode.
AnimeObjs ==
    {[req |-> req, title |-> title, language |-> language, episodes |-> episodes,
      last_update |-> Cached(Built)] :
        req \in {r \in Requests : r.timeout = "None"},
        title \in {Unset, Cached("title")},
        language \in {Unset, Cached(Language("en")), Cached(Language("de"))},
        episodes \in {Unset}
            \cup {Cached([i \in I |-> ep]) :
                     I \in {{}, {0}, {0, 1}},
                     ep \in EpisodeObjs(1, {StreamRequest(1)})}}

\* SourceAnime.serialise_special("episodes", value)
serialise_episodes(value) ==
    [k \in {str(i) : i \in DOMAIN value} |-> Episode_state(value[int(k)])]

\* SourceAnime.deserialise_special("episodes", value)
deserialise_episodes(value) ==
    [i \in {int(k) : k \in DOMAIN value} |-> Episode_from_state(value[str(i)])]

\* Stateful.state of a SourceAnime: a dict with int keys and a Language are
\* not storable as they are; the empty dict is.
Anime_state(a) ==
    [req |-> Request_state(a.req), title |-> a.title,
     language |-> IF a.language = Unset THEN Unset ELSE Cached(a.language[1].value),
     episodes |-> IF a.episodes = Unset THEN Unset
                  ELSE IF DOMAIN a.episodes[1] = {} THEN Plain(serialise_episodes(a.episodes[1]))
                  ELSE Special(serialise_episodes(a.episodes[1])),
     last_update |-> a.last_update]

\* Stateful.from_state of a SourceAnime class
Anime_from_state(data) ==
    [req |-> Request_from_state(data.req), title |-> inject(Unset, data.title),
     language |-> IF data.language = Unset THEN Unset ELSE Cached(Language(data.language[1])),
     episodes |-> IF data.episodes = Unset THEN Unset
                  ELSE Cached(deserialise_episodes(data.episodes[1].val)),
     last_update |-> inject(Cached(Rehydrated), data.last_update)]

\* Stateful.state, by the class of the object
Stateful_state(kind, obj) ==
    CASE kind = "Stream" -> Stream_state(obj)
      [] kind = "Episode" -> Episode_state(obj)
      [] OTHER -> Anime_state(obj)

\* cls.from_state, by the class
Stateful_from_state(kind, data) ==
    CASE kind = "Stream" -> load_stream(data)
      [] kind = "Episode" -> Episode_from_state(data)
      [] OTHER -> Anime_from_state(data)

NoState == [none |-> TRUE]

InitStateful ==
    /\ \E kind \in {"Stream", "Episode", "SourceAnime"} :
       \E obj \in (CASE kind = "Stream" -> StreamObjsOf(Requests)
                     [] kind = "Episode" ->
                            EpisodeObjs(MaxStreams, {r \in Requests : r.url = 1 /\ ~r.use_proxy})
                     [] OTHER -> AnimeObjs) :
          stateful = [pc |-> "built", kind |-> kind, obj |-> obj,
                      doc |-> NoState, inst |-> NoState]
    /\ EarlierIdle
    /\ uid_parser = Idle /\ scraper = Idle /\ collection = Idle
    /\ staggered = Idle /\ ref_counter = Idle
    /\ LaterIdle

notStateful == <<earlier, uid_parser, scraper, collection, staggered, ref_counter, later_objects>>

\* obj.state is read and stored.
Serialise ==
    /\ stateful.pc = "built"
    /\ stateful' = [stateful EXCEPT !.pc = "serialised",
                                    !.doc = Stateful_state(stateful.kind, stateful.obj)]
    /\ UNCHANGED notStateful

\* The stored state is loaded with from_state of the class.
Rehydrate ==
    /\ stateful.pc = "serialised"
    /\ stateful' = [stateful EXCEPT !.pc = "rehydrated",
                                    !.inst = Stateful_from_state(stateful.kind, stateful.doc)]
    /\ UNCHANGED notStateful

NextStateful == Serialise \/ Rehydrate

SpecStateful == InitStateful /\ [][NextStateful]_vars

\* A computed value of a is the value of b.
same_if_computed(a, b) == a # Unset => b = a

\* Two streams are equal: class, request, and every computed attribute.
stream_equal(a, b) ==
    /\ a.cls = b.cls
    /\ request_equivalent(a.req, b.req)
    /\ same_if_computed(a.external, b.external)
    /\ same_if_computed(a.links, b.links)
    /\ same_if_computed(a.poster, b.poster)
    /\ same_if_computed(a.last_update, b.last_update)

\* Two lists of streams are equal element for element, index for index.
streams_equal(a, b) ==
    /\ Len(a) = Len(b)
    /\ \A i \in 1..Len(a) : stream_equal(a[i], b[i])

episode_equal(a, b) ==
    /\ request_equivalent(a.req, b.req)
    /\ a.streams # Unset => b.streams # Unset /\ streams_equal(a.streams[1], b.streams[1])
    /\ a.stream # Unset => b.stream # Unset /\ stream_equal(a.stream[1], b.stream[1])
    /\ same_if_computed(a.raw_streams, b.raw_streams)
    /\ same_if_computed(a.poster, b.poster)
    /\ same_if_computed(a.last_update, b.last_update)

anime_equal(a, b) ==
    /\ request_equivalent(a.req, b.req)
    /\ same_if_computed(a.title, b.title)
    /\ same_if_computed(a.language, b.language)
    /\ a.episodes # Unset =>
          /\ b.episodes # Unset
          /\ DOMAIN a.episodes[1] = DOMAIN b.episodes[1]
          /\ \A i \in DOMAIN a.episodes[1] : episode_equal(a.episodes[1][i], b.episodes[1][i])
    /\ same_if_computed(a.last_update, b.last_update)

\* C22: the object from_state builds of the state of a Stateful object has
\* the values of all computed ATTRS of the original, an episode's list of
\* streams included, element for element and index for index, and an
\* equivalent Request.
C22_StateRoundTrips ==
    stateful.pc = "rehydrated" =>
        CASE stateful.kind = "Stream" -> stream_equal(stateful.obj, stateful.inst)
          [] stateful.kind = "Episode" -> episode_equal(stateful.obj, stateful.inst)
          [] OTHER -> anime_equal(stateful.obj, stateful.inst)

(***************************************************************************)
(* uid.UID: create and parse.  A string is a sequence of tokens: "-", the  *)
(* suffix "_dub", and pieces of text that hold neither.                    *)
(***************************************************************************)

\* The longest string handed to parse as it is, and the longest medium id
\* and source id handed to create.
MaxUidLen == 6
MaxIdLen == 2

\* MediumType and Language, by value
MediumTypes == {"a", "m"}
Languages == {"en", "de"}

\* All strings of at most n tokens of an alphabet.
Strings(alphabet, n) == UNION {[1..k -> alphabet] : k \in 0..n}

\* UID.create
create(media_type, media_id, source, language, dubbed) ==
    LET dubbed_str == IF dubbed THEN <<"_dub">> ELSE <<>>
        source_str == IF source # <<>> THEN <<"-">> \o source ELSE <<>>
    IN <<media_type, "-">> \o media_id \o source_str \o <<"-", language>> \o dubbed_str

\* models.SourceAnime.uid of the earlier layout: name-anime-lang[_dub]
create_legacy(source, media_id, language, dubbed) ==
    source \o <<"-">> \o media_id \o <<"-", language>>
        \o (IF dubbed THEN <<"_dub">> ELSE <<>>)

\* The pieces of a string between its dashes.
RECURSIVE Split(_)
Split(str_) ==
    IF \A i \in 1..Len(str_) : str_[i] # "-" THEN <<str_>>
    ELSE LET i == CHOOSE i \in 1..Len(str_) :
                      str_[i] = "-" /\ \A j \in 1..(i - 1) : str_[j] # "-"
         IN <<SubSeq(str_, 1, i - 1)>> \o Split(SubSeq(str_, i + 1, Len(str_)))

\* A greedy last group, which leaves "_dub" to the language.
lang_dub_greedy(tail) == [lang |-> tail, dub |-> FALSE]

\* `(.+?)(_dub)?$` and `([^-]+?)(_dub)?$` on the rest of a string: the lazy
\* group is the shortest text that is not empty and leaves nothing or
\* "_dub" behind it.
lang_dub(tail) ==
    IF Len(tail) > 1 /\ tail[Len(tail)] = "_dub"
    THEN [lang |-> SubSeq(tail, 1, Len(tail) - 1), dub |-> TRUE]
    ELSE [lang |-> tail, dub |-> FALSE]

NoMatch == [matched |-> FALSE, g1 |-> <<>>, g2 |-> <<>>, g3 |-> <<>>, g4 |-> <<>>, dub |-> FALSE]

\* RE_UID_PARSER.match: ^([^-]+)-([^-]+)(?:-([^-]+))?-([^-]+?)(_dub)?$
RE_UID_PARSER(str_) ==
    LET parts == Split(str_)
        n == Len(parts)
    IN IF n \in {3, 4} /\ \A i \in 1..n : parts[i] # <<>>
       THEN [matched |-> TRUE, g1 |-> parts[1], g2 |-> parts[2],
             g3 |-> IF n = 4 THEN parts[3] ELSE <<>>,
             g4 |-> lang_dub(parts[n]).lang, dub |-> lang_dub(parts[n]).dub]
       ELSE NoMatch

\* RE_LEGACY_UID_PARSER.match: ^(.+)-(.+)-(.+?)(_dub)?$ ; the greedy groups
\* take the last dash they can, the first group before the second.
RE_LEGACY_UID_PARSER(str_) ==
    LET dashes == {i \in 1..Len(str_) : str_[i] = "-"}
        splits == {d \in dashes \X dashes :
                      d[1] > 1 /\ d[2] > d[1] + 1 /\ d[2] < Len(str_)}
    IN IF splits = {} THEN NoMatch
       ELSE LET d == CHOOSE d \in splits :
                         \A e \in splits : e[1] < d[1] \/ (e[1] = d[1] /\ e[2] <= d[2])
                tail == SubSeq(str_, d[2] + 1, Len(str_))
            IN [matched |-> TRUE, g1 |-> SubSeq(str_, 1, d[1] - 1),
                g2 |-> SubSeq(str_, d[1] + 1, d[2] - 1), g3 |-> <<>>,
                g4 |-> lang_dub(tail).lang, dub |-> lang_dub(tail).dub]

\* What parse() ends in.
Parsed(kind, medium_type, medium_id, source, language, dubbed) ==
    [kind |-> kind, medium_type |-> medium_type, medium_id |-> medium_id,
     source |-> source, language |-> language, dubbed |-> dubbed]

ParseRaised(exc) == Parsed(exc, "None", <<>>, <<>>, "None", FALSE)

\* MediumType(value) and get_lang(value) raise ValueError for a value that
\* is not a member.
is_medium_type(g) == Len(g) = 1 /\ g[1] \in MediumTypes
is_language(g) == Len(g) = 1 /\ g[1] \in Languages

\* UID.parse of a string that was not parsed yet
parse(str_) ==
    LET match == RE_UID_PARSER(str_)
        legacy == RE_LEGACY_UID_PARSER(str_)
    IN IF match.matched
       THEN IF ~is_medium_type(match.g1) \/ ~is_language(match.g4)
            THEN ParseRaised("ValueError")
            ELSE Parsed("ok", match.g1[1], match.g2, match.g3, match.g4[1], match.dub)
       ELSE IF ~legacy.matched THEN ParseRaised("UIDInvalid")
       ELSE IF ~is_language(legacy.g4) THEN ParseRaised("ValueError")
       ELSE Parsed("ok", "a", legacy.g2, legacy.g1, legacy.g4[1], legacy.dub)

\* The components create is called with: a medium id as create_media_id
\* leaves it (no dash, no "_dub"; empty for a blank name), a source id or
\* none.
CreateInputs ==
    [medium_type : MediumTypes, medium_id : Strings({"x", "a", "en"}, MaxIdLen),
     source : Strings({"x", "_dub"}, MaxIdLen), language : Languages, dubbed : BOOLEAN]

\* The components of the uids of the earlier layout.
LegacyInputs ==
    [medium_type : {"a"}, medium_id : Strings({"x", "en"}, MaxIdLen) \ {<<>>},
     source : Strings({"x"}, MaxIdLen) \ {<<>>}, language : Languages, dubbed : BOOLEAN]

NoInputs == [medium_type |-> "None", medium_id |-> <<>>, source |-> <<>>,
             language |-> "None", dubbed |-> FALSE]

InitUidParser ==
    /\ \/ \E c \in CreateInputs :
             uid_parser = [pc |-> "created", origin |-> "create", inputs |-> c,
                           string |-> create(c.medium_type, c.medium_id, c.source,
                                             c.language, c.dubbed),
                           result |-> ParseRaised("None")]
       \/ \E c \in LegacyInputs :
             uid_parser = [pc |-> "created", origin |-> "legacy", inputs |-> c,
                           string |-> create_legacy(c.source, c.medium_id, c.language, c.dubbed),
                           result |-> ParseRaised("None")]
       \/ \E str_ \in Strings({"a", "x", "en", "-", "_dub"}, MaxUidLen) :
             uid_parser = [pc |-> "created", origin |-> "string", inputs |-> NoInputs,
                           string |-> str_, result |-> ParseRaised("None")]
    /\ EarlierIdle
    /\ stateful = Idle /\ scraper = Idle /\ collection = Idle
    /\ staggered = Idle /\ ref_counter = Idle
    /\ LaterIdle

notUidParser == <<earlier, stateful, scraper, collection, staggered, ref_counter, later_objects>>

\* UID(string).parse(), by the first read of one of its properties.
Parse ==
    /\ uid_parser.pc = "created"
    /\ uid_parser' = [uid_parser EXCEPT !.pc = "parsed", !.result = parse(uid_parser.string)]
    /\ UNCHANGED notUidParser

NextUidParser == Parse

SpecUidParser == InitUidParser /\ [][NextUidParser]_vars

\* The result of parse is the components.
parsed_as(result, c) ==
    /\ result.kind = "ok"
    /\ result.medium_type = c.medium_type
    /\ result.medium_id = c.medium_id
    /\ result.source = c.source
    /\ result.language = c.language
    /\ result.dubbed = c.dubbed

\* C23 as stated: for every medium type, normalized medium id, source id or
\* none, language and dubbed flag, parsing the string create makes yields
\* these five components, and the string is what it was.
C23_ParseCreateRoundTrips ==
    /\ uid_parser.pc = "parsed" /\ uid_parser.origin = "create" =>
          /\ parsed_as(uid_parser.result, uid_parser.inputs)
          /\ uid_parser.string = create(uid_parser.inputs.medium_type,
                                        uid_parser.inputs.medium_id, uid_parser.inputs.source,
                                        uid_parser.inputs.language, uid_parser.inputs.dubbed)

\* C23, amended: the same for every medium id that is not empty.
C23_ParseCreateRoundTripsNonEmptyId ==
    /\ uid_parser.pc = "parsed" /\ uid_parser.origin = "create"
         /\ uid_parser.inputs.medium_id # <<>> =>
          /\ parsed_as(uid_parser.result, uid_parser.inputs)
          /\ uid_parser.string = create(uid_parser.inputs.medium_type,
                                        uid_parser.inputs.medium_id, uid_parser.inputs.source,
                                        uid_parser.inputs.language, uid_parser.inputs.dubbed)

\* A dubbed uid with a source whose id ends in "_dub" and a medium id that
\* reads like a language was parsed back to its components.
C23_Witness ==
    /\ uid_parser.pc = "parsed" /\ uid_parser.origin = "create"
    /\ uid_parser.inputs.medium_id = <<"en">>
    /\ uid_parser.inputs.source = <<"x", "_dub">>
    /\ uid_parser.inputs.dubbed
    /\ parsed_as(uid_parser.result, uid_parser.inputs)

\* C24: a uid of the earlier layout parses to an anime with its source,
\* medium id, language and dubbed flag; a string that matches neither
\* grammar fails with UIDInvalid, and no string fails with another error.
C24_LegacyParsesElseUIDInvalid ==
    uid_parser.pc = "parsed" =>
        /\ uid_parser.origin = "legacy" => parsed_as(uid_parser.result, uid_parser.inputs)
        /\ uid_parser.result.kind \in {"ok", "UIDInvalid"}
        /\ (~RE_UID_PARSER(uid_parser.string).matched
              /\ ~RE_LEGACY_UID_PARSER(uid_parser.string).matched)
               => uid_parser.result.kind = "UIDInvalid"

(***************************************************************************)
(* index_scraper.common: IndexScraper.scrape with the mixins               *)
(* UpdateUntilLastStateIndexScraper and MaxPageIndexIndexScraper.          *)
(***************************************************************************)

\* The titles a page can list.
NTitles == 3

\* deque(maxlen=200) of the recent titles, scaled to the titles of the
\* model: a page can list more titles than the deque holds.
RecentMaxLen == 2

\* MaxPageIndexIndexScraper.MAX_PAGE_INDEX, which a scraper class sets; 80
\* by default.
MAX_PAGE_INDEX == 3

\* The calls of scrape_once one run is followed for.
MaxPages == MAX_PAGE_INDEX + 2

Titles == 1..NTitles

NoPage == 0 - 1

\* The orders a set of titles is iterated in.
Orders(titles) ==
    {o \in [1..Cardinality(titles) -> titles] : \A i, j \in DOMAIN o : i # j => o[i] # o[j]}

\* deque.extend on a deque with maxlen: the oldest entries fall out.
extend(recent, titles_in_order) ==
    LET all == recent \o titles_in_order
    IN IF Len(all) <= RecentMaxLen THEN all
       ELSE SubSeq(all, Len(all) - RecentMaxLen + 1, Len(all))

\* first_page_titles of the meta document: None without a document.
NoTitles == [set |-> FALSE, titles |-> {}]
StoredTitles(titles) == [set |-> TRUE, titles |-> titles]

\* A check that finds every page new.
check_first_page_titles_always_different(old_page_titles, recent) == TRUE

\* check_first_page_titles_different
check_first_page_titles_different(old_page_titles, recent) ==
    IF ~old_page_titles.set THEN TRUE
    ELSE ~(old_page_titles.titles \subseteq Range(recent))

\* A limit that lets the page of index MAX_PAGE_INDEX pass.
max_page_should_continue_after(current_page_index) == ~(current_page_index > MAX_PAGE_INDEX)

\* MaxPageIndexIndexScraper.should_continue, up to its call of super()
max_page_should_continue(current_page_index) == ~(current_page_index >= MAX_PAGE_INDEX)

\* A scraper that reads the meta document at every check.
get_first_page_titles_uncached(sc) == sc.stored

\* get_first_page_titles: the titles of the meta document, read at the
\* first call and kept in _first_page_titles from then on.
get_first_page_titles(sc) ==
    IF sc.first_page_titles = Unset THEN sc.stored ELSE sc.first_page_titles[1]

\* should_continue of the class of the scraper; sc is the scraper, with the
\* side effects of the call on it.
should_continue(sc, page_media, order, current_page_index) ==
    LET super_continue == IF sc.max_page THEN max_page_should_continue(current_page_index)
                          ELSE TRUE
    IN IF ~sc.update \/ ~super_continue \/ ~page_media.ok
       THEN [value |-> super_continue, sc |-> sc]
       ELSE LET recent == extend(sc.recent, order)
                old == get_first_page_titles(sc)
                hashes_different == check_first_page_titles_different(old, recent)
            IN [value |-> hashes_different,
                sc |-> [sc EXCEPT !.recent = recent,
                                  !.first_page_titles = Cached(old),
                                  !.compared = Cached(old),
                                  !.wrote_first_page = @ \/ current_page_index = 0,
                                  !.stored = IF current_page_index = 0
                                             THEN StoredTitles(page_media.titles) ELSE @]]

\* The media of a page: None when extract_media raised.
NoMedia == [ok |-> FALSE, titles |-> {}]
PageMedia(titles) == [ok |-> TRUE, titles |-> titles]

InitScraper ==
    /\ \E update \in BOOLEAN, max_page \in BOOLEAN :
       \E stored \in {NoTitles} \cup {StoredTitles(1..k) : k \in 0..NTitles} :
          scraper = [pc |-> "scraping", update |-> update, max_page |-> max_page,
                     page_index |-> 0, pages |-> 0, stored |-> stored,
                     first_page_titles |-> Unset, recent |-> <<>>,
                     page0 |-> [extracted |-> FALSE, subset |-> FALSE, in_window |-> FALSE,
                                stored_any |-> FALSE],
                     uploaded0 |-> FALSE, increasing |-> TRUE, advanced_at_limit |-> FALSE,
                     stop |-> "none",
                     previous |-> stored, compared |-> Unset, wrote_first_page |-> FALSE,
                     docs |-> {}, extracted |-> {},
                     last |-> [ok |-> FALSE, next |-> NoPage]]
    /\ EarlierIdle
    /\ stateful = Idle /\ uid_parser = Idle /\ collection = Idle
    /\ staggered = Idle /\ ref_counter = Idle
    /\ LaterIdle

notScraper == <<earlier, stateful, uid_parser, collection, staggered, ref_counter, later_objects>>

\* What page 0 gave, against the titles the previous run stored.
page0_of(sc, page_media) ==
    IF sc.page_index = 0 /\ sc.pages = 0 /\ page_media.ok
    THEN [extracted |-> TRUE,
          subset |-> sc.stored.set /\ sc.stored.titles \subseteq page_media.titles,
          in_window |-> Cardinality(page_media.titles) <= RecentMaxLen,
          stored_any |-> sc.stored.set /\ sc.stored.titles # {}]
    ELSE sc.page0

\* An upload that is put off to the pass of the next page.
upload_media_skipped(docs, page_media) == docs

\* upload_media(page_media) on the titles the collection holds.
upload_media(docs, page_media) == docs \cup page_media.titles

\* One pass of the loop of scrape(): create_request gave no request.
NoRequest ==
    /\ scraper.pc = "scraping"
    /\ scraper.pages < MaxPages
    /\ scraper' = [scraper EXCEPT !.pc = "done", !.stop = "no_request",
                                  !.last = [ok |-> FALSE, next |-> NoPage]]
    /\ UNCHANGED notScraper

\* One pass of the loop of scrape(): scrape_once, upload_media, then the
\* break on the last page, should_continue, and the step to the next page.
ScrapePage(page_media, order, next_page_index) ==
    /\ scraper.pc = "scraping"
    /\ scraper.pages < MaxPages
    /\ LET scraped == [scraper EXCEPT !.pages = @ + 1,
                                      !.page0 = page0_of(scraper, page_media),
                                      !.uploaded0 = @ \/ (page_media.ok
                                                            /\ scraper.page_index = 0),
                                      !.extracted = @ \cup page_media.titles,
                                      !.docs = IF page_media.ok
                                               THEN upload_media(@, page_media) ELSE @,
                                      !.last = [ok |-> page_media.ok,
                                                next |-> next_page_index]]
           sc == should_continue(scraped, page_media, order, scraper.page_index)
       IN scraper' =
              IF next_page_index = NoPage
              THEN [scraped EXCEPT !.pc = "done", !.stop = "last_page"]
              ELSE IF ~sc.value
              THEN [sc.sc EXCEPT !.pc = "done", !.stop = "should_continue"]
              ELSE [sc.sc EXCEPT !.page_index = next_page_index,
                                 !.advanced_at_limit =
                                     @ \/ scraper.page_index >= MAX_PAGE_INDEX,
                                 !.increasing = @ /\ next_page_index > scraper.page_index]
    /\ UNCHANGED notScraper

NextScraper ==
    \/ NoRequest
    \/ \E page_media \in {NoMedia} \cup {PageMedia(t) : t \in SUBSET Titles} :
       \E order \in Orders(page_media.titles) :
       \E next_page_index \in {NoPage, scraper.page_index, scraper.page_index + 1,
                               scraper.page_index + 2} :
          ScrapePage(page_media, order, next_page_index)

SpecScraper == InitScraper /\ [][NextScraper]_vars

\* C25 as stated: when the first-page titles the previous run stored are a
\* subset of the titles extracted on page 0, the scraper upserts page 0 and
\* stops without requesting another page.
C25_StopsAtPageZero ==
    scraper.update /\ scraper.page0.extracted /\ scraper.page0.subset =>
        /\ scraper.pc = "done"
        /\ scraper.pages = 1
        /\ scraper.uploaded0

\* C25, amended: the same when page 0 lists no more titles than the deque
\* of recent titles holds.
C25_StopsAtPageZeroWithinWindow ==
    scraper.update /\ scraper.page0.extracted /\ scraper.page0.subset
        /\ scraper.page0.in_window =>
        /\ scraper.pc = "done"
        /\ scraper.pages = 1
        /\ scraper.uploaded0

\* Page 0 listed the stored titles, had a next page, and should_continue
\* stopped the run after the upsert.
C25_Witness ==
    /\ scraper.update /\ scraper.page0.extracted /\ scraper.page0.subset
    /\ scraper.page0.in_window /\ scraper.page0.stored_any
    /\ scraper.pc = "done" /\ scraper.stop = "should_continue"
    /\ scraper.pages = 1 /\ scraper.uploaded0

\* C27: a scraper with the MaxPageIndex mixin never advances from a page
\* whose index is MAX_PAGE_INDEX or more, and with page indices that grow
\* from page to page it scrapes at most MAX_PAGE_INDEX + 1 pages.
C27_StopsAtMaxPageIndex ==
    scraper.max_page =>
        /\ ~scraper.advanced_at_limit
        /\ scraper.increasing => scraper.pages <= MAX_PAGE_INDEX + 1

\* A run of MAX_PAGE_INDEX + 1 pages, one index at a time, that the limit
\* ended.
C27_Witness ==
    /\ scraper.max_page /\ scraper.increasing
    /\ scraper.pc = "done" /\ scraper.stop = "should_continue"
    /\ scraper.page_index = MAX_PAGE_INDEX
    /\ scraper.pages = MAX_PAGE_INDEX + 1

\* C32: a run of an UpdateUntilLastState scraper whose page 0 gave media
\* has written the titles of page 0 to the meta document when it is over,
\* whichever way it ended.
C32_FirstPageTitlesWritten ==
    scraper.update /\ scraper.page0.extracted /\ scraper.pc = "done"
        => scraper.wrote_first_page

\* The part of C32 that holds: the titles of page 0 are written when page 0
\* gave media and has a next page index, also when the run stops there.
C32_FirstPageTitlesWrittenWithNextPage ==
    scraper.update /\ scraper.page0.extracted /\ scraper.pc = "done"
        /\ ~(scraper.pages = 1 /\ scraper.stop = "last_page")
        => scraper.wrote_first_page /\ scraper.stored.set

\* C33: the deque of recent titles never holds more than its maxlen, and
\* the titles a stop check compared against are those the meta document
\* held when the run began, also after the run wrote the titles of its own
\* page 0.
C33_ComparesAgainstPreviousRun ==
    scraper.update =>
        /\ Len(scraper.recent) <= RecentMaxLen
        /\ scraper.compared # Unset => scraper.compared[1] = scraper.previous

\* The run wrote the titles of its page 0, which differ from those of the
\* run before, went on and checked a later page against the old ones.
C33_Witness ==
    /\ scraper.update /\ scraper.wrote_first_page
    /\ scraper.previous.set /\ scraper.stored # scraper.previous
    /\ scraper.pages >= 2 /\ scraper.page_index > 0
    /\ Len(scraper.recent) = RecentMaxLen
    /\ scraper.compared = Cached(scraper.previous)
    /\ scraper.stop = "should_continue"

NUids == 2
NFieldValues == 2
MaxUploads == 3

\* A Medium: _id and the rest of dataclasses.asdict(medium).
MediaObjs == [_id : 1..NUids, fields : 1..NFieldValues]

\* UpdateOne({"_id": medium.raw_uid}, {"$set": doc}, upsert=True) on the
\* documents of the collection.
update_one_upsert(docs, medium) ==
    IF \E d \in docs : d._id = medium._id
    THEN {IF d._id = medium._id THEN [d EXCEPT !.fields = medium.fields] ELSE d : d \in docs}
    ELSE docs \cup {[_id |-> medium._id, fields |-> medium.fields]}

\* The requests applied one after the other.
RECURSIVE apply_requests(_, _)
apply_requests(docs, requests) ==
    IF requests = <<>> THEN docs
    ELSE apply_requests(update_one_upsert(docs, Head(requests)), Tail(requests))

\* collection.bulk_write(requests, ordered=False): the server applies the
\* requests in an order of its choice.
bulk_write_orders(media) ==
    {o \in [1..Cardinality(media) -> media] : \A i, j \in DOMAIN o : i # j => o[i] # o[j]}

InitCollection ==
    /\ collection = [pc |-> "ready", docs |-> {}, uploads |-> 0, last |-> {}, repeated |-> FALSE]
    /\ EarlierIdle
    /\ stateful = Idle /\ uid_parser = Idle /\ scraper = Idle
    /\ staggered = Idle /\ ref_counter = Idle
    /\ LaterIdle

notCollection == <<earlier, stateful, uid_parser, scraper, staggered, ref_counter, later_objects>>

\* upload_media(media)
UploadMedia(media, order) ==
    /\ collection.uploads < MaxUploads
    /\ collection' = [collection EXCEPT !.docs = apply_requests(@, order),
                                        !.uploads = @ + 1, !.last = media,
                                        !.repeated = collection.uploads > 0
                                                     /\ collection.last = media]
    /\ UNCHANGED notCollection

NextCollection ==
    \E media \in SUBSET MediaObjs : \E order \in bulk_write_orders(media) :
        UploadMedia(media, order)

SpecCollection == InitCollection /\ [][NextCollection]_vars

\* C26: the collection holds at most one document per uid, a uid of the
\* latest upload has the fields that upload gave it, and an upload of the
\* media of the upload before it leaves the collection as it was.
C26_UpsertByUid ==
    /\ [](/\ \A d1, d2 \in collection.docs : d1._id = d2._id => d1 = d2
          /\ \A m \in collection.last : \E d \in collection.docs :
                /\ d._id = m._id
                /\ \E n \in collection.last : n._id = d._id /\ n.fields = d.fields)
    /\ [][collection'.repeated => collection'.docs = collection.docs]_vars

(***************************************************************************)
(* request.Request.staggered_request: attempts launched one after the      *)
(* other, each after a longer wait, until one of them is done.             *)
(***************************************************************************)

\* The attempts one call launches at most.
MaxAttempts == 4

\* timeout = 1, counted in units of 1 / TimeUnit seconds so that the
\* timeouts of MaxAttempts waits are integers.
TimeUnit == 16

\* timeout_mult = 1.5, as a fraction.
timeout_mult_num == 3
timeout_mult_den == 2

\* timeout *= timeout_mult
next_timeout(timeout) == (timeout * timeout_mult_num) \div timeout_mult_den

\* An attempt is a task of the loop: it is in flight, or it is done with a
\* response or with an exception, or it was cancelled.
DoneStatuses == {"ok", "error"}

\* The attempts in a given state.
attempts_in(st, status) == {i \in DOMAIN st.attempts : st.attempts[i] = status}

\* done_fs of asyncio.wait(requests, timeout=timeout,
\* return_when=FIRST_COMPLETED): the attempts of `requests` that are done.
\* `requests` holds the attempts that were pending after the wait before
\* and the new one, so no attempt of it was done before this wait.
done_fs(st) == {i \in DOMAIN st.attempts : st.attempts[i] \in DoneStatuses}

\* for req in requests: req.cancel(), `requests` being the attempts that
\* were pending when the wait returned.
cancel_pending(attempts) ==
    [i \in DOMAIN attempts |-> IF attempts[i] = "in_flight" THEN "cancelled" ELSE attempts[i]]

NoAttempt == 0

InitStaggered ==
    /\ staggered = [pc |-> "idle", attempts |-> <<>>, timeout |-> 0,
                    resp |-> NoAttempt, waits |-> 0]
    /\ EarlierIdle
    /\ stateful = Idle /\ uid_parser = Idle /\ scraper = Idle
    /\ collection = Idle /\ ref_counter = Idle
    /\ LaterIdle

notStaggered == <<earlier, stateful, uid_parser, scraper, collection, ref_counter, later_objects>>

\* staggered_request is called: timeout = 1, the first attempt is created
\* and the call waits for it.
StaggeredRequest ==
    /\ staggered.pc = "idle"
    /\ staggered' = [staggered EXCEPT !.pc = "waiting", !.attempts = <<"in_flight">>,
                                      !.timeout = TimeUnit]
    /\ UNCHANGED notStaggered

\* An attempt in flight is done, with a response or with an exception.
\* Nothing but a cancel stops an attempt, so it may be done after the call
\* that launched it is over.
AttemptCompletes(i, outcome) ==
    /\ staggered.pc # "idle"
    /\ i \in attempts_in(staggered, "in_flight")
    /\ staggered' = [staggered EXCEPT !.attempts[i] = outcome]
    /\ UNCHANGED notStaggered

\* asyncio.wait returns after `timeout` with no attempt done: the timeout
\* grows and the loop launches one more attempt.
WaitTimesOut ==
    /\ staggered.pc = "waiting"
    /\ done_fs(staggered) = {}
    /\ Len(staggered.attempts) < MaxAttempts
    /\ staggered' = [staggered EXCEPT !.attempts = Append(@, "in_flight"),
                                      !.timeout = next_timeout(@),
                                      !.waits = @ + 1]
    /\ UNCHANGED notStaggered

\* asyncio.wait returns with attempts done: done = next(iter(done_fs)).
\* done.result() is the response, the loop is left and the pending
\* attempts are cancelled; or done.result() raises the exception of the
\* attempt, which leaves staggered_request at that line.
WaitReturns(done) ==
    /\ staggered.pc = "waiting"
    /\ done \in done_fs(staggered)
    /\ staggered' =
          IF staggered.attempts[done] = "ok"
          THEN [staggered EXCEPT !.pc = "returned", !.resp = done,
                                 !.attempts = cancel_pending(@)]
          ELSE [staggered EXCEPT !.pc = "raised", !.resp = done]
    /\ UNCHANGED notStaggered

\* The task that awaits staggered_request is cancelled: CancelledError is
\* raised at `await asyncio.wait(...)`, which leaves its futures as they
\* are.
CallerCancelled ==
    /\ staggered.pc = "waiting"
    /\ staggered' = [staggered EXCEPT !.pc = "cancelled"]
    /\ UNCHANGED notStaggered

NextStaggered ==
    \/ StaggeredRequest
    \/ \E i \in 1..MaxAttempts : \E outcome \in DoneStatuses : AttemptCompletes(i, outcome)
    \/ WaitTimesOut
    \/ \E done \in 1..MaxAttempts : WaitReturns(done)
    \/ CallerCancelled

SpecStaggered == InitStaggered /\ [][NextStaggered]_vars

\* C28: an attempt is launched only while no attempt is done, each after a
\* longer wait than the one before it; and once staggered_request is over,
\* with a response, with the error of an attempt or by cancellation of its
\* caller, no attempt it launched is in flight.
C28_LosersCancelledOnEveryExit ==
    /\ [](staggered.pc \in {"returned", "raised", "cancelled"}
              => attempts_in(staggered, "in_flight") = {})
    /\ [][Len(staggered'.attempts) > Len(staggered.attempts)
              => /\ done_fs(staggered) = {}
                 /\ staggered'.timeout > staggered.timeout]_vars

\* The part of C28 that is about the launches and about the exit with a
\* response: attempts are launched one at a time while none is done, after
\* growing waits, and a call that returns a response leaves none in flight.
C28_LaunchesUntilDoneAndReturnCancels ==
    /\ [](staggered.pc = "returned" => attempts_in(staggered, "in_flight") = {})
    /\ [][Len(staggered'.attempts) > Len(staggered.attempts)
              => /\ done_fs(staggered) = {}
                 /\ Len(staggered'.attempts) = Len(staggered.attempts) + 1
                 /\ staggered'.timeout > staggered.timeout]_vars

(***************************************************************************)
(* The locks of decorators.cached_property and of url_pool.UrlPool: a      *)
(* cached field read by several tasks, or a pool asked by several tasks.   *)
(***************************************************************************)

\* The object in use is the cached field, or the pool.
prop_in_use == DOMAIN prop # DOMAIN Idle
url_pool_in_use == DOMAIN url_pool # DOMAIN Idle

InitLocks == InitProp \/ InitUrlPool

NextLocks ==
    \/ prop_in_use /\ NextProp
    \/ url_pool_in_use /\ NextUrlPool

SpecLocks == InitLocks /\ [][NextLocks]_vars

\* The tasks inside `async with lock` of the getter: func is awaited.
inside_getter == {r \in Readers : prop.pc[r] = "computing"}

\* The tasks inside `async with self._lock` of UrlPool.url.
inside_url == {c \in Callers : url_pool.pc[c] \in {"fetch", "update_url", "upload", "hung"}}

\* C29: the lock of a cached field and the lock of a pool are held only by
\* a task that is inside the guarded section, whichever way the tasks
\* before it left it (return, exception, cancellation); so with no task
\* inside, the lock is free, and a task that arrives then enters the
\* section without waiting.
C29_LocksReleasedOnEveryExit ==
    /\ [](/\ prop_in_use =>
                /\ prop.lock # NoReader => prop.lock \in inside_getter
                /\ inside_getter = {} => prop.lock = NoReader
          /\ url_pool_in_use =>
                /\ url_pool.lock # NoReader => url_pool.lock \in inside_url
                /\ inside_url = {} => url_pool.lock = NoReader)
    /\ [][/\ prop_in_use /\ inside_getter = {} =>
                \A r \in Readers :
                    prop.pc[r] = "idle" /\ prop'.pc[r] # "idle" => prop'.pc[r] # "waiting"
          /\ url_pool_in_use /\ inside_url = {} =>
                \A c \in Callers :
                    url_pool.pc[c] = "idle" /\ url_pool'.pc[c] # "idle"
                        => url_pool'.pc[c] # "waiting"]_vars

\* Each way out of a guarded section was taken by a holder, nobody is
\* inside, the lock is free, and a task that came later got it: a reader
\* of the field after a computation that failed, or a caller of the pool
\* after a holder was cancelled in its probe and another raised.
C29_Witness ==
    \/ /\ prop_in_use
       /\ inside_getter = {} /\ prop.lock = NoReader
       /\ prop.pc[1] = "raised" /\ ~prop.waited[1]
       /\ prop.pc[2] = "returned" /\ prop.waited[2] /\ prop.val[2] = 2
       /\ prop.pc[3] = "returned" /\ prop.val[3] = 2
    \/ /\ url_pool_in_use
       /\ inside_url = {} /\ url_pool.lock = NoReader
       /\ url_pool.pc[1] = "cancelled" /\ url_pool.probed[1]
       /\ url_pool.pc[2] = "raised" /\ url_pool.waited[2] /\ url_pool.probed[2]

(***************************************************************************)
(* decorators.cached_contextmanager / _RefCounter: Request.page and        *)
(* Request.browser of one request, used by several tasks.                  *)
(***************************************************************************)

\* The tasks that use `async with request.page`.
NUsers == 3

\* How often the scope is entered in all.
MaxEnters == 6

Users == 1..NUsers

\* _RefCounter.__init__: self.ref_count = 1
initial_ref_count == 1

\* _RefCounter(func, self): the generator is created, not started.
new_ref == [exists |-> TRUE, ref_count |-> initial_ref_count, value |-> Unset,
            closed |-> FALSE]

\* No _page_ref / _browser_ref attribute yet.
no_ref == [exists |-> FALSE, ref_count |-> 0, value |-> Unset, closed |-> FALSE]

\* cached_contextmanager.wrapper: the _RefCounter of the attribute, made on
\* the first access.
wrapper(ref) == IF ref.exists THEN ref ELSE new_ref

\* The instance a user has before __aenter__ returned one.
NoInstance == 0

\* The users between __aenter__ and __aexit__ of request.page.
in_scope == {u \in Users : ref_counter.pc[u] \in {"entering", "inside"}}

InitRefCounter ==
    /\ ref_counter = [pc |-> [u \in Users |-> "idle"],
                      page |-> [u \in Users |-> NoInstance],
                      page_ref |-> no_ref, browser_ref |-> no_ref,
                      pages |-> 0, browsers |-> 0, enters |-> 0]
    /\ EarlierIdle
    /\ stateful = Idle /\ uid_parser = Idle /\ scraper = Idle
    /\ collection = Idle /\ staggered = Idle
    /\ LaterIdle

notRefCounter == <<earlier, stateful, uid_parser, scraper, collection, staggered,
                   later_objects>>

\* `async with request.page` up to the first await of __aenter__: the
\* property gives the _RefCounter, ref_count += 1, then self.value is
\* awaited.
Enter(u) ==
    /\ ref_counter.pc[u] = "idle"
    /\ ref_counter.enters < MaxEnters
    /\ ref_counter' = [ref_counter EXCEPT
                          !.pc[u] = "entering", !.enters = @ + 1,
                          !.page_ref = [wrapper(@) EXCEPT !.ref_count = @ + 1]]
    /\ UNCHANGED notRefCounter

\* `await self.value` returns.  The first time the generator of page runs
\* to its yield: `async with self.browser` (the _RefCounter of browser is
\* made, ref_count += 1, its generator runs get_browser to its yield), then
\* load_page; the page is cached.  Afterwards the cached page is returned.
ValueReturns(u) ==
    /\ ref_counter.pc[u] = "entering"
    /\ ref_counter' =
          IF ref_counter.page_ref.value = Unset
          THEN [ref_counter EXCEPT
                   !.pc[u] = "inside", !.page[u] = ref_counter.pages + 1,
                   !.pages = @ + 1, !.browsers = @ + 1,
                   !.page_ref.value = Cached(ref_counter.pages + 1),
                   !.browser_ref = [wrapper(@) EXCEPT
                                       !.ref_count = @ + 1,
                                       !.value = Cached(ref_counter.browsers + 1)]]
          ELSE [ref_counter EXCEPT
                   !.pc[u] = "inside", !.page[u] = ref_counter.page_ref.value[1]]
    /\ UNCHANGED notRefCounter

\* _RefCounter.__aexit__ of browser, reached from the generator of page
\* when that is resumed: ref_count -= 1, and at ref_count <= 0 the
\* generator of browser is resumed and closes the browser.
browser_aexit(ref) ==
    [ref EXCEPT !.ref_count = @ - 1, !.closed = @ \/ ref.ref_count - 1 <= 0]

\* The block of `async with request.page` is left: __aexit__ does
\* ref_count -= 1, and at ref_count <= 0 the generator of page is resumed:
\* page.close(), then the __aexit__ of browser.
Leave(u) ==
    /\ ref_counter.pc[u] = "inside"
    /\ ref_counter' =
          IF ref_counter.page_ref.ref_count - 1 <= 0
          THEN [ref_counter EXCEPT
                   !.pc[u] = "idle", !.page[u] = NoInstance,
                   !.page_ref.ref_count = @ - 1, !.page_ref.closed = TRUE,
                   !.browser_ref = browser_aexit(@)]
          ELSE [ref_counter EXCEPT
                   !.pc[u] = "idle", !.page[u] = NoInstance,
                   !.page_ref.ref_count = @ - 1]
    /\ UNCHANGED notRefCounter

NextRefCounter ==
    \/ \E u \in Users : Enter(u)
    \/ \E u \in Users : ValueReturns(u)
    \/ \E u \in Users : Leave(u)

SpecRefCounter == InitRefCounter /\ [][NextRefCounter]_vars

\* C30: the count of the page scope is the number of users inside it, the
\* users inside at the same time have one page instance, and the page and
\* the browser are closed exactly when the scope was used and the last
\* user has left it.
C30_CountsUsersAndClosesOnZero ==
    ref_counter.page_ref.exists =>
        /\ ref_counter.page_ref.ref_count = Cardinality(in_scope)
        /\ \A u, v \in Users :
              ref_counter.pc[u] = "inside" /\ ref_counter.pc[v] = "inside"
                  => ref_counter.page[u] = ref_counter.page[v]
        /\ ref_counter.page_ref.closed
              <=> (ref_counter.page_ref.value # Unset /\ in_scope = {})
        /\ ref_counter.browser_ref.closed
              <=> (ref_counter.page_ref.value # Unset /\ in_scope = {})

\* The part of C30 that is about sharing and about closing early: one
\* page and one browser are made, the users inside have that page, and
\* neither is closed while a user is inside.
C30_SharedAndNotClosedEarly ==
    /\ ref_counter.pages <= 1 /\ ref_counter.browsers <= 1
    /\ \A u, v \in Users :
          ref_counter.pc[u] = "inside" /\ ref_counter.pc[v] = "inside"
              => ref_counter.page[u] = ref_counter.page[v]
    /\ in_scope # {} => ~ref_counter.page_ref.closed /\ ~ref_counter.browser_ref.closed

\* The objects of the sections from Stateful to _RefCounter at rest.
MiddleIdle ==
    /\ stateful = Idle /\ uid_parser = Idle /\ scraper = Idle
    /\ collection = Idle /\ staggered = Idle /\ ref_counter = Idle

middle == <<stateful, uid_parser, scraper, collection, staggered, ref_counter>>

(***************************************************************************)
(* The dirty flags: decorators.cached_property on a SourceAnime, one of    *)
(* its episodes and one stream of that episode.                            *)
(***************************************************************************)

\* The objects, from the anime down.
Objects == {"anime", "episode", "stream"}

\* self.ATTRS of Stateful.__init__: the ATTRS of the classes of the mro.
ATTRS(obj) ==
    CASE obj = "anime" -> {"media_id", "is_dub", "language", "title", "thumbnail",
                           "episode_count", "episodes", "last_update"}
      [] obj = "episode" -> {"stream", "host_url", "raw_streams", "streams", "poster",
                             "last_update"}
      [] obj = "stream" -> {"external", "links", "poster", "last_update"}

\* The fields under @cached_property that are read, set and deleted here;
\* SourceAnime.id, SourceEpisode.sources and Stream.working are in no
\* ATTRS.
CachedFields(obj) ==
    CASE obj = "anime" -> {"title", "id"}
      [] obj = "episode" -> {"streams", "poster", "sources"}
      [] obj = "stream" -> {"links", "working"}

\* cached_property where the field's name decides: the flag is set for a
\* name in ATTRS only.
marks_dirty_declared(obj, name) == name \in ATTRS(obj)

\* `try: func.__name__ in self.ATTRS / except AttributeError: pass / else:
\* self._dirty = True`: the value of the `in` is not used, and every
\* Stateful has ATTRS.
marks_dirty(obj, name) == TRUE

\* Stateful.__init__: _dirty = False, nothing cached.
new_object == [_dirty |-> FALSE, cached |-> {}]

\* hasattr(self, "_streams")
has_streams(t) == "streams" \in t.episode.cached

\* Stream.dirty, SourceEpisode.dirty, SourceAnime.dirty
stream_dirty(t) == t.stream._dirty
episode_dirty(t) == t.episode._dirty \/ (has_streams(t) /\ stream_dirty(t))
anime_dirty(t) == t.anime._dirty \/ (t.has_episodes /\ episode_dirty(t))

\* The objects that are reachable from the anime.
attached(t, obj) ==
    CASE obj = "anime" -> TRUE
      [] obj = "episode" -> t.has_episodes
      [] obj = "stream" -> t.has_episodes /\ has_streams(t)

NoOp == [op |-> "none", obj |-> "anime", name |-> "title", before |-> FALSE]

InitDirtyTree ==
    /\ dirty_tree = [anime |-> new_object, episode |-> new_object, stream |-> new_object,
                     has_episodes |-> FALSE, last |-> NoOp]
    /\ EarlierIdle /\ MiddleIdle
    /\ scrapers_run = Idle /\ first_call = Idle /\ smart_wait = Idle
    /\ write_back = Idle /\ group_run = Idle /\ search_run = Idle

notDirtyTree == <<earlier, middle, scrapers_run, first_call, smart_wait, write_back,
                  group_run, search_run>>

\* The streams an episode computes are new objects.
with_new_streams(t, obj, name) ==
    IF obj = "episode" /\ name = "streams" THEN [t EXCEPT !.stream = new_object] ELSE t

\* getter: the field is awaited while it is not cached; func runs, the
\* value is stored and the flag handled.
Compute(obj, name) ==
    /\ attached(dirty_tree, obj)
    /\ name \in CachedFields(obj) \ dirty_tree[obj].cached
    /\ dirty_tree' = [with_new_streams(dirty_tree, obj, name) EXCEPT
                         ![obj].cached = @ \cup {name},
                         ![obj]._dirty = @ \/ marks_dirty(obj, name),
                         !.last = [op |-> "compute", obj |-> obj, name |-> name,
                                   before |-> dirty_tree[obj]._dirty]]
    /\ UNCHANGED notDirtyTree

\* setter: a value is assigned to the field.
SetField(obj, name) ==
    /\ attached(dirty_tree, obj)
    /\ name \in CachedFields(obj)
    /\ dirty_tree' = [with_new_streams(dirty_tree, obj, name) EXCEPT
                         ![obj].cached = @ \cup {name},
                         ![obj]._dirty = @ \/ marks_dirty(obj, name),
                         !.last = [op |-> "set", obj |-> obj, name |-> name,
                                   before |-> dirty_tree[obj]._dirty]]
    /\ UNCHANGED notDirtyTree

\* deleter: delattr of the cached value, which raises AttributeError when
\* there is none, then the flag.
DeleteField(obj, name) ==
    /\ attached(dirty_tree, obj)
    /\ name \in dirty_tree[obj].cached
    /\ dirty_tree' = [dirty_tree EXCEPT
                         ![obj].cached = @ \ {name},
                         ![obj]._dirty = @ \/ marks_dirty(obj, name),
                         !.last = [op |-> "delete", obj |-> obj, name |-> name,
                                   before |-> dirty_tree[obj]._dirty]]
    /\ UNCHANGED notDirtyTree

\* SourceAnime.get(index) / episodes: the episode is put into _episodes.
GetEpisode ==
    /\ ~dirty_tree.has_episodes
    /\ dirty_tree' = [dirty_tree EXCEPT !.has_episodes = TRUE, !.episode = new_object,
                                        !.stream = new_object, !.last = NoOp]
    /\ UNCHANGED notDirtyTree

\* SourceAnime.dirty = value: _dirty = value, and a False goes to the
\* episodes, whose setter passes any value on to the streams.
SetDirty(value) ==
    /\ dirty_tree' =
          IF ~value /\ dirty_tree.has_episodes
          THEN [dirty_tree EXCEPT
                   !.anime._dirty = value, !.episode._dirty = value,
                   !.stream._dirty = IF has_streams(dirty_tree) THEN value ELSE @,
                   !.last = NoOp]
          ELSE [dirty_tree EXCEPT !.anime._dirty = value, !.last = NoOp]
    /\ dirty_tree' # dirty_tree
    /\ UNCHANGED notDirtyTree

NextDirtyTree ==
    \/ \E obj \in Objects : \E name \in CachedFields(obj) : Compute(obj, name)
    \/ \E obj \in Objects : \E name \in CachedFields(obj) : SetField(obj, name)
    \/ \E obj \in Objects : \E name \in CachedFields(obj) : DeleteField(obj, name)
    \/ GetEpisode
    \/ \E value \in BOOLEAN : SetDirty(value)

SpecDirtyTree == InitDirtyTree /\ [][NextDirtyTree]_vars

\* C31: after a declared field of an object was computed, set or deleted
\* the object is dirty; the anime reports dirty whenever its episode or a
\* stream of that episode is dirty; and after a field that is in no ATTRS
\* was computed the object's flag is what it was before.
C31_DirtyTracksDeclaredFields ==
    LET l == dirty_tree.last IN
    /\ l.op \in {"compute", "set", "delete"} /\ l.name \in ATTRS(l.obj)
          => dirty_tree[l.obj]._dirty
    /\ dirty_tree.has_episodes /\ episode_dirty(dirty_tree) => anime_dirty(dirty_tree)
    /\ dirty_tree.has_episodes /\ has_streams(dirty_tree) /\ stream_dirty(dirty_tree)
          => anime_dirty(dirty_tree)
    /\ l.op = "compute" /\ l.name \notin ATTRS(l.obj)
          => dirty_tree[l.obj]._dirty = l.before

\* The parts of C31 about declared fields and about the children: the
\* object is dirty after a declared field was computed, set or deleted,
\* and the anime reports dirty whenever its episode or its stream is.
C31_DeclaredFieldsAndChildren ==
    LET l == dirty_tree.last IN
    /\ l.op \in {"compute", "set", "delete"} /\ l.name \in ATTRS(l.obj)
          => dirty_tree[l.obj]._dirty
    /\ dirty_tree.has_episodes /\ episode_dirty(dirty_tree) => anime_dirty(dirty_tree)
    /\ dirty_tree.has_episodes /\ has_streams(dirty_tree) /\ stream_dirty(dirty_tree)
          => anime_dirty(dirty_tree)

(***************************************************************************)
(* index_scrapers.run_index_scrapers: the scrapers of one run under        *)
(* asyncio.gather.                                                         *)
(***************************************************************************)

\* The scraper classes a run can be given.
NScrapers == 4

ScraperIds == 1..NScrapers

\* What has become of the scrape() of the scrapers of the run.
scrapes_in(run, status) == {i \in run.index_scrapers : run.scrape[i] = status}

InitScrapersRun ==
    /\ \E index_scrapers \in SUBSET ScraperIds :
          scrapers_run = [pc |-> "called", index_scrapers |-> index_scrapers,
                          scrape |-> [i \in ScraperIds |-> "none"]]
    /\ EarlierIdle /\ MiddleIdle
    /\ dirty_tree = Idle /\ first_call = Idle /\ smart_wait = Idle
    /\ write_back = Idle /\ group_run = Idle /\ search_run = Idle

notScrapersRun == <<earlier, middle, dirty_tree, first_call, smart_wait, write_back,
                    group_run, search_run>>

\* add_collection_indexes raises: no scraper is made.
IndexesFail ==
    /\ scrapers_run.pc = "called"
    /\ scrapers_run' = [scrapers_run EXCEPT !.pc = "raised"]
    /\ UNCHANGED notScrapersRun

\* The indexes are there, the scrapers are made, and gather makes a task
\* of every scrape() before it waits; with no scraper it returns at once.
Gather ==
    /\ scrapers_run.pc = "called"
    /\ scrapers_run' =
          [scrapers_run EXCEPT
              !.pc = IF scrapers_run.index_scrapers = {} THEN "returned" ELSE "gathering",
              !.scrape = [i \in ScraperIds |->
                             IF i \in scrapers_run.index_scrapers THEN "running" ELSE "none"]]
    /\ UNCHANGED notScrapersRun

\* A scrape() returns; when it was the last of a gather that is still
\* waiting, gather returns and run_index_scrapers with it.
ScrapeReturns(i) ==
    /\ i \in scrapes_in(scrapers_run, "running")
    /\ scrapers_run' =
          [scrapers_run EXCEPT
              !.scrape[i] = "finished",
              !.pc = IF @ = "gathering"
                        /\ scrapes_in(scrapers_run, "running") = {i}
                     THEN "returned" ELSE @]
    /\ UNCHANGED notScrapersRun

\* A scrape() raises; a gather that is still waiting passes the exception
\* on to its caller at once and leaves the other tasks as they are.
ScrapeRaises(i) ==
    /\ i \in scrapes_in(scrapers_run, "running")
    /\ scrapers_run' =
          [scrapers_run EXCEPT
              !.scrape[i] = "failed",
              !.pc = IF @ = "gathering" THEN "raised" ELSE @]
    /\ UNCHANGED notScrapersRun

\* The task that awaits run_index_scrapers is cancelled: gather cancels
\* the tasks that are not done.
RunCancelled ==
    /\ scrapers_run.pc = "gathering"
    /\ scrapers_run' =
          [scrapers_run EXCEPT
              !.pc = "cancelled",
              !.scrape = [i \in ScraperIds |-> IF @[i] = "running" THEN "cancelled" ELSE @[i]]]
    /\ UNCHANGED notScrapersRun

NextScrapersRun ==
    \/ IndexesFail
    \/ Gather
    \/ \E i \in ScraperIds : ScrapeReturns(i)
    \/ \E i \in ScraperIds : ScrapeRaises(i)
    \/ RunCancelled

SpecScrapersRun == InitScrapersRun /\ [][NextScrapersRun]_vars

\* C35: the scrapers of a run are started in one step; when
\* run_index_scrapers has returned or raised, every scraper it started has
\* finished; and the failure of a scraper stops no other scraper.
C35_AllStartedAllAwaited ==
    /\ [](scrapers_run.pc \in {"returned", "raised"}
              => scrapes_in(scrapers_run, "running") = {})
    /\ [][/\ (\E i \in ScraperIds : scrapers_run.scrape[i] = "none"
                                     /\ scrapers_run'.scrape[i] # "none")
              => \A i \in scrapers_run.index_scrapers : scrapers_run'.scrape[i] = "running"
          /\ (\E i \in ScraperIds : scrapers_run.scrape[i] = "running"
                                     /\ scrapers_run'.scrape[i] = "failed")
              => \A j \in ScraperIds :
                    scrapers_run.scrape[j] = "running" /\ scrapers_run'.scrape[j] # "running"
                        => scrapers_run'.scrape[j] = "failed"]_vars

\* The parts of C35 that hold: the scrapers are started in one step, a
\* return of run_index_scrapers comes after the last scraper finished, and
\* the failure of a scraper stops no other scraper.
C35_StartedTogetherReturnAfterAll ==
    /\ [](scrapers_run.pc = "returned"
              => \A i \in scrapers_run.index_scrapers : scrapers_run.scrape[i] = "finished")
    /\ [][/\ (\E i \in ScraperIds : scrapers_run.scrape[i] = "none"
                                     /\ scrapers_run'.scrape[i] # "none")
              => \A i \in scrapers_run.index_scrapers : scrapers_run'.scrape[i] = "running"
          /\ (\E i \in ScraperIds : scrapers_run.scrape[i] = "running"
                                     /\ scrapers_run'.scrape[i] = "failed")
              => \A j \in ScraperIds :
                    scrapers_run.scrape[j] = "running" /\ scrapers_run'.scrape[j] # "running"
                        => scrapers_run'.scrape[j] = "failed"]_vars

(***************************************************************************)
(* request.Request.first: the requests are tried at once and the tasks are *)
(* looked at as asyncio.wait hands them back.                              *)
(***************************************************************************)

\* The requests given to Request.first.
NRequests == 3

RequestIds == 1..NRequests

\* What try_req of a request does: it returns the request (the predicate
\* holds), returns None, raises, or never completes.
TryReqOutcomes == {"True", "False", "TimeoutError", "hang"}

NoRequestId == 0

\* The tasks of `coros` in a given state.
tasks_in(fc, status) == {i \in fc.requests : fc.task[i] = status}

InitFirstCall ==
    /\ \E requests \in SUBSET RequestIds : \E hs \in [requests -> TryReqOutcomes] :
          first_call = [pc |-> "called", requests |-> requests, hs |-> hs,
                        task |-> [i \in RequestIds |-> "none"],
                        result |-> NoRequestId, together |-> FALSE]
    /\ EarlierIdle /\ MiddleIdle
    /\ dirty_tree = Idle /\ scrapers_run = Idle /\ smart_wait = Idle
    /\ write_back = Idle /\ group_run = Idle /\ search_run = Idle

notFirstCall == <<earlier, middle, dirty_tree, scrapers_run, smart_wait, write_back,
                  group_run, search_run>>

\* coros = {try_req(request) ...}; `while coros` ends at once for no
\* request, else asyncio.wait makes tasks of the coroutines and waits.
First ==
    /\ first_call.pc = "called"
    /\ first_call' =
          [first_call EXCEPT
              !.pc = IF first_call.requests = {} THEN "returned" ELSE "waiting",
              !.task = [i \in RequestIds |->
                           IF i \in first_call.requests THEN "running" ELSE "none"]]
    /\ UNCHANGED notFirstCall

\* try_req of a request completes, with a return or an exception.
TryReqCompletes(i) ==
    /\ i \in tasks_in(first_call, "running")
    /\ first_call.hs[i] # "hang"
    /\ first_call' = [first_call EXCEPT !.task[i] = "done"]
    /\ UNCHANGED notFirstCall

\* asyncio.wait hands back the done tasks and the pending ones, which
\* become `coros`; next(iter(done)) is looked at.  Its request is
\* returned after the pending tasks were cancelled, its exception leaves
\* through .result(), and on a None the loop goes on while coros is not
\* empty.
FirstWaitReturns(i) ==
    /\ first_call.pc = "waiting"
    /\ i \in tasks_in(first_call, "done")
    /\ LET looked == [first_call EXCEPT
                         !.task = [j \in RequestIds |->
                                      IF j = i THEN "examined"
                                      ELSE IF @[j] = "done" THEN "dropped" ELSE @[j]],
                         !.together = @ \/ tasks_in(first_call, "done") # {i}]
       IN first_call' =
             CASE first_call.hs[i] = "True" ->
                    [looked EXCEPT !.pc = "returned", !.result = i,
                                   !.task = [j \in RequestIds |->
                                                IF @[j] = "running" THEN "cancelled"
                                                ELSE @[j]]]
               [] first_call.hs[i] = "TimeoutError" -> [looked EXCEPT !.pc = "raised"]
               [] OTHER ->
                    IF tasks_in(first_call, "running") = {}
                    THEN [looked EXCEPT !.pc = "returned"]
                    ELSE looked
    /\ UNCHANGED notFirstCall

NextFirstCall ==
    \/ First
    \/ \E i \in RequestIds : TryReqCompletes(i)
    \/ \E i \in RequestIds : FirstWaitReturns(i)

SpecFirstCall == InitFirstCall /\ [][NextFirstCall]_vars

\* The requests that satisfy the predicate.
satisfying(fc) == {i \in fc.requests : fc.hs[i] = "True"}

\* C36: when Request.first has returned, its result is a request that
\* satisfies the predicate if there is one, and None only if there is
\* none, and no task is still running.
C36_FirstReturnsSatisfying ==
    first_call.pc = "returned" =>
        /\ satisfying(first_call) # {} => first_call.result \in satisfying(first_call)
        /\ first_call.result = NoRequestId => satisfying(first_call) = {}
        /\ tasks_in(first_call, "running") = {}

\* The parts of C36 that hold: a request that is returned satisfies the
\* predicate, no task runs on after a return, and, as long as no two tasks
\* were done at the same wait, None is returned only if no request
\* satisfies the predicate.
C36_ReturnedSatisfiesWhenOneByOne ==
    first_call.pc = "returned" =>
        /\ first_call.result # NoRequestId => first_call.result \in satisfying(first_call)
        /\ tasks_in(first_call, "running") = {}
        /\ ~first_call.together /\ first_call.result = NoRequestId
              => satisfying(first_call) = {}

\* What the steps of Request.first end in is what first_kinds gives for
\* the same requests.
FirstKindsCoverSteps ==
    /\ first_call.pc = "returned" /\ first_call.result # NoRequestId
          => "request" \in first_kinds(first_call.hs)
    /\ first_call.pc = "returned" /\ first_call.result = NoRequestId
          => "None" \in first_kinds(first_call.hs)
    /\ first_call.pc = "raised" => "TimeoutError" \in first_kinds(first_call.hs)
    /\ (first_call.pc = "waiting" /\ tasks_in(first_call, "done") = {}
          /\ \A i \in tasks_in(first_call, "running") : first_call.hs[i] = "hang")
          => "hang" \in first_kinds(first_call.hs)

(***************************************************************************)
(* anime.group.smart_wait, as HasAnimesMixin.wait_for_all calls it: the    *)
(* first accepted result, then the results of a grace period.              *)
(***************************************************************************)

\* The futures given to smart_wait.
NFutures == 3

FutureIds == 1..NFutures

\* save_wait returns None for a future that timed out or raised.
NoneResult == 0

\* result_selector of wait_for_all: lambda result: result is not None
result_selector(result) == result # NoneResult

\* The check of the loop over done_fs:
\* `if result_selector and not result_selector(first_result): continue`
grace_selected(first_result, result) == result_selector(first_result)

\* `for future in done_fs` from a given list of results on.
RECURSIVE extend_results(_, _, _, _)
extend_results(results, first_result, order, value) ==
    IF order = <<>> THEN results
    ELSE extend_results(
             IF grace_selected(first_result, value[Head(order)])
             THEN Append(results, value[Head(order)]) ELSE results,
             first_result, Tail(order), value)

InitSmartWait ==
    /\ \E fs \in SUBSET FutureIds : \E accepted \in SUBSET fs : \E timeout \in BOOLEAN :
          smart_wait = [pc |-> "called", fs |-> fs, timeout |-> timeout,
                        value |-> [i \in FutureIds |->
                                      IF i \in accepted THEN i ELSE NoneResult],
                        completed |-> <<>>, taken |-> 0, results |-> <<>>]
    /\ EarlierIdle /\ MiddleIdle
    /\ dirty_tree = Idle /\ scrapers_run = Idle /\ first_call = Idle
    /\ write_back = Idle /\ group_run = Idle /\ search_run = Idle

notSmartWait == <<earlier, middle, dirty_tree, scrapers_run, first_call, write_back,
                  group_run, search_run>>

\* asyncio.as_completed(fs, timeout=timeout) starts the futures.
SmartWait ==
    /\ smart_wait.pc = "called"
    /\ smart_wait' = [smart_wait EXCEPT !.pc = "first"]
    /\ UNCHANGED notSmartWait

\* A future completes; as_completed hands the futures out in the order in
\* which they complete.
FutureCompletes(i) ==
    /\ smart_wait.pc \in {"first", "grace"}
    /\ i \in smart_wait.fs
    /\ \A k \in DOMAIN smart_wait.completed : smart_wait.completed[k] # i
    /\ smart_wait' = [smart_wait EXCEPT !.completed = Append(@, i)]
    /\ UNCHANGED notSmartWait

\* next(completed_iter) has nothing left: StopIteration, `return []`.
NothingLeft ==
    /\ smart_wait.pc = "first"
    /\ smart_wait.taken = Cardinality(smart_wait.fs)
    /\ smart_wait' = [smart_wait EXCEPT !.pc = "returned", !.results = <<>>]
    /\ UNCHANGED notSmartWait

\* `first_result = await next(completed_iter)`: a result the selector
\* rejects is passed over, the first one it accepts ends the loop; with no
\* future left after it the results are returned.
NextCompleted ==
    /\ smart_wait.pc = "first"
    /\ smart_wait.taken < Len(smart_wait.completed)
    /\ LET first_result == smart_wait.value[smart_wait.completed[smart_wait.taken + 1]]
       IN smart_wait' =
             IF ~result_selector(first_result)
             THEN [smart_wait EXCEPT !.taken = @ + 1]
             ELSE [smart_wait EXCEPT
                      !.taken = @ + 1, !.results = <<first_result>>,
                      !.pc = IF smart_wait.taken + 1 = Cardinality(smart_wait.fs)
                             THEN "returned" ELSE "grace"]
    /\ UNCHANGED notSmartWait

\* The timeout of as_completed passes before the next future completes:
\* asyncio.TimeoutError leaves smart_wait.
FirstTimesOut ==
    /\ smart_wait.pc = "first"
    /\ smart_wait.timeout
    /\ smart_wait.taken = Len(smart_wait.completed)
    /\ smart_wait.taken < Cardinality(smart_wait.fs)
    /\ smart_wait' = [smart_wait EXCEPT !.pc = "raised"]
    /\ UNCHANGED notSmartWait

\* asyncio.wait(pending_fs, timeout=first_time / 2) returns, with every
\* future done or at the timeout; the results of done_fs are gone through
\* in the order of the set.
GraceEnds(order) ==
    /\ smart_wait.pc = "grace"
    /\ LET done_results == {smart_wait.completed[k] :
                          k \in (smart_wait.taken + 1)..Len(smart_wait.completed)}
       IN /\ order \in Orders(done_results)
          /\ smart_wait' = [smart_wait EXCEPT
                               !.pc = "returned",
                               !.results = extend_results(@, @[1], order, smart_wait.value)]
    /\ UNCHANGED notSmartWait

NextSmartWait ==
    \/ SmartWait
    \/ \E i \in FutureIds : FutureCompletes(i)
    \/ NothingLeft
    \/ NextCompleted
    \/ FirstTimesOut
    \/ \E n \in 0..NFutures : \E order \in [1..n -> FutureIds] : GraceEnds(order)

SpecSmartWait == InitSmartWait /\ [][NextSmartWait]_vars

\* C37: every result smart_wait returns is one the selector accepts.
C37_OnlyAcceptedResults ==
    smart_wait.pc = "returned" =>
        \A k \in DOMAIN smart_wait.results : result_selector(smart_wait.results[k])

\* The part of C37 that holds: the first result of the list is one the
\* selector accepts, the results are those of futures that completed, each
\* at most once, and a list is empty only if no accepted result came.
C37_FirstResultAccepted ==
    smart_wait.pc = "returned" =>
        /\ smart_wait.results # <<>> => result_selector(smart_wait.results[1])
        /\ \A k \in DOMAIN smart_wait.results :
              smart_wait.results[k] # NoneResult =>
                  /\ \E c \in DOMAIN smart_wait.completed :
                        smart_wait.completed[c] = smart_wait.results[k]
                  /\ \A l \in DOMAIN smart_wait.results :
                        smart_wait.results[l] = smart_wait.results[k] => l = k

(***************************************************************************)
(* anime.sources: CACHE, track_in_cache and save_dirty.                    *)
(***************************************************************************)

\* The anime objects of the process.
NCached == 3

CachedAnimes == 1..NCached

InitWriteBack ==
    /\ write_back = [pc |-> "ready", CACHE |-> {}, dirty |-> {}, coros |-> {},
                     unsaved |-> {}, examined |-> {}]
    /\ EarlierIdle /\ MiddleIdle
    /\ dirty_tree = Idle /\ scrapers_run = Idle /\ first_call = Idle
    /\ smart_wait = Idle /\ group_run = Idle /\ search_run = Idle

notWriteBack == <<earlier, middle, dirty_tree, scrapers_run, first_call, smart_wait,
                  group_run, search_run>>

\* A task changes an anime: anime.dirty is True from then on (save_dirty
\* does not reset it).  The change of a tracked anime waits to be saved.
BecomesDirty(a) ==
    /\ a \notin write_back.dirty
    /\ a \notin write_back.coros
    /\ write_back' = [write_back EXCEPT
                         !.dirty = @ \cup {a},
                         !.unsaved = IF a \in write_back.CACHE THEN @ \cup {a} ELSE @]
    /\ UNCHANGED notWriteBack

\* track_in_cache(anime), by any task: CACHE.add(anime)
track_in_cache(a) ==
    /\ a \notin write_back.CACHE
    /\ write_back' = [write_back EXCEPT
                         !.CACHE = @ \cup {a},
                         !.unsaved = IF a \in write_back.dirty THEN @ \cup {a} ELSE @]
    /\ UNCHANGED notWriteBack

\* save_dirty() up to its await: nothing for an empty CACHE; else a
\* save_anime for every anime that is dirty.  Awaiting gather() of no
\* coroutine does not suspend, so CACHE.clear() follows at once.
save_dirty ==
    /\ write_back.pc = "ready"
    /\ write_back.CACHE # {}
    /\ LET coros == write_back.CACHE \cap write_back.dirty
       IN write_back' =
             IF coros = {}
             THEN [write_back EXCEPT !.CACHE = {}, !.examined = {}]
             ELSE [write_back EXCEPT !.pc = "gather", !.coros = coros,
                                     !.examined = write_back.CACHE]
    /\ UNCHANGED notWriteBack

\* save_anime(anime, silent=True) ends: the document was written, or an
\* exception was logged.
save_anime(a, written) ==
    /\ write_back.pc = "gather"
    /\ a \in write_back.coros
    /\ write_back' = [write_back EXCEPT
                         !.coros = @ \ {a},
                         !.unsaved = IF written THEN @ \ {a} ELSE @]
    /\ UNCHANGED notWriteBack

\* gather returns: CACHE.clear()
GatherReturns ==
    /\ write_back.pc = "gather"
    /\ write_back.coros = {}
    /\ write_back' = [write_back EXCEPT !.pc = "ready", !.CACHE = {}, !.examined = {}]
    /\ UNCHANGED notWriteBack

NextWriteBack ==
    \/ \E a \in CachedAnimes : BecomesDirty(a)
    \/ \E a \in CachedAnimes : track_in_cache(a)
    \/ save_dirty
    \/ \E a \in CachedAnimes : \E written \in BOOLEAN : save_anime(a, written)
    \/ GatherReturns

SpecWriteBack == InitWriteBack /\ [][NextWriteBack]_vars

\* C38: an anime that was tracked while dirty and whose change no
\* save_dirty has persisted is still in the cache; and save_dirty takes out
\* of the cache only entries it examined.
C38_NoUnsavedEntryDiscarded ==
    /\ [](write_back.unsaved \subseteq write_back.CACHE)
    /\ [][write_back.CACHE \ write_back'.CACHE \subseteq write_back'.examined
             \cup write_back.examined]_vars

\* The part of C38 that holds: a save_dirty that finds no dirty entry
\* discards no entry with an unsaved change, and the change of an entry
\* counts as saved only after its save_anime wrote the document.
C38_CleanCacheClearedWithoutLoss ==
    [][/\ write_back.pc = "ready" /\ write_back'.pc = "ready"
             => write_back.unsaved \cap write_back.CACHE \subseteq write_back'.CACHE
       /\ write_back.unsaved \ write_back'.unsaved # {}
             => write_back.pc = "gather"
                /\ write_back.unsaved \ write_back'.unsaved \subseteq write_back.coros]_vars

(***************************************************************************)
(* group_animes as two tasks: the caller, which preloads the animes and    *)
(* then joins the queue, and the group worker it started.  Only the        *)
(* bookkeeping of the queue is kept: the animes still to come, the items   *)
(* in the queue, the items put but not yet marked done and the number of   *)
(* animes that are in a group.                                             *)
(***************************************************************************)

\* The most animes the input yields.
MaxGroupInputs == 5

InitGroupRun ==
    /\ \E n \in 0..MaxGroupInputs :
          group_run = [pc |-> "preloading", input |-> n, preload_queue |-> 0,
                       unfinished |-> 0, group_future |-> "waiting",
                       grouped |-> 0]
    /\ EarlierIdle /\ MiddleIdle
    /\ dirty_tree = Idle /\ scrapers_run = Idle /\ first_call = Idle
    /\ smart_wait = Idle /\ write_back = Idle /\ search_run = Idle

notGroupRun == <<earlier, middle, dirty_tree, scrapers_run, first_call, smart_wait,
                 write_back, search_run>>

\* preload_worker: the preload of the next anime succeeds and the anime is
\* put into the queue, which counts it as unfinished.
PreloadPuts ==
    /\ group_run.pc = "preloading"
    /\ group_run.input > 0
    /\ group_run' = [group_run EXCEPT !.input = @ - 1,
                                      !.preload_queue = @ + 1,
                                      !.unfinished = @ + 1]
    /\ UNCHANGED notGroupRun

\* preload_worker: anime.preload_attrs() raises.  Nothing catches it, so it
\* leaves preload_worker and group_animes; group_future.cancel() is not
\* reached.
PreloadRaises ==
    /\ group_run.pc = "preloading"
    /\ group_run.input > 0
    /\ group_run' = [group_run EXCEPT !.pc = "raised"]
    /\ UNCHANGED notGroupRun

\* The input is exhausted: group_animes goes on to preload_queue.join().
PreloadWorkerReturns ==
    /\ group_run.pc = "preloading"
    /\ group_run.input = 0
    /\ group_run' = [group_run EXCEPT !.pc = "joining"]
    /\ UNCHANGED notGroupRun

\* group_worker: preload_queue.get() hands over the next anime.
WorkerGets ==
    /\ group_run.group_future = "waiting"
    /\ group_run.preload_queue > 0
    /\ group_run' = [group_run EXCEPT !.preload_queue = @ - 1,
                                      !.group_future = "grouping"]
    /\ UNCHANGED notGroupRun

\* group_worker: the anime was added to a group or made a group of its own;
\* task_done() and back to preload_queue.get().
WorkerTaskDone ==
    /\ group_run.group_future = "grouping"
    /\ group_run' = [group_run EXCEPT !.unfinished = @ - 1,
                                      !.grouped = @ + 1,
                                      !.group_future = "waiting"]
    /\ UNCHANGED notGroupRun

\* group_worker: could_contain, add_anime or the gather of the new group's
\* fields raises.  The exception ends the worker's task before task_done().
WorkerRaises ==
    /\ group_run.group_future = "grouping"
    /\ group_run' = [group_run EXCEPT !.group_future = "failed"]
    /\ UNCHANGED notGroupRun

\* preload_queue.join() returns once every item was marked done; the worker
\* is cancelled (which does nothing to a task that has ended) and the groups
\* are returned.
JoinReturns ==
    /\ group_run.pc = "joining"
    /\ group_run.unfinished = 0
    /\ group_run' = [group_run EXCEPT
                        !.pc = "returned",
                        !.group_future =
                            IF @ = "failed" THEN "failed" ELSE "cancelled"]
    /\ UNCHANGED notGroupRun

NextGroupRun ==
    \/ PreloadPuts
    \/ PreloadRaises
    \/ PreloadWorkerReturns
    \/ WorkerGets
    \/ WorkerTaskDone
    \/ WorkerRaises
    \/ JoinReturns

SpecGroupRun == InitGroupRun /\ [][NextGroupRun]_vars

\* The event loop runs every task that can take a step.
FairGroupRun == SpecGroupRun /\ WF_vars(NextGroupRun)

\* C39: for every finite input group_animes eventually returns or raises,
\* also when a preload or a step of the group worker fails, and once it has
\* exited the group worker's task is no longer running.
C39_TerminatesWithoutWorker ==
    /\ <>(group_run.pc \in {"returned", "raised"})
    /\ [](group_run.pc \in {"returned", "raised"}
             => group_run.group_future \in {"cancelled", "failed"})

\* What holds: without a failure group_animes returns with every anime
\* grouped and the worker cancelled.
C39_ReturnsWhenNothingFails ==
    /\ [](group_run.pc = "returned"
             => /\ group_run.input = 0
                /\ group_run.preload_queue = 0
                /\ group_run.unfinished = 0
                /\ group_run.group_future \in {"cancelled", "failed"})
    /\ [](group_run.pc = "joining"
             => <>(group_run.pc = "returned" \/ group_run.group_future = "failed"))

(***************************************************************************)
(* search_anime with its consumer, the `async for` of _search_anime, which *)
(* leaves the loop as soon as the pools hold consider_results results.     *)
(* Only the tasks are kept: task[s] is the state of the waiter task of     *)
(* source s.                                                               *)
(***************************************************************************)

\* The most results one source yields.
MaxSourceResults == 2

InitSearchRun ==
    /\ \E left \in [Sources -> 0..MaxSourceResults], num_results \in 1..MaxNumResults :
       \E pooled \in 0..(num_results - 1) :
          search_run = [pc |-> "batch_wait", left |-> left,
                        task |-> [s \in Sources |-> "pending"],
                        waiting_sources |-> Sources, done_sources |-> {},
                        pool |-> pooled,
                        consider_results |-> consider_results(num_results),
                        early |-> FALSE]
    /\ EarlierIdle /\ MiddleIdle
    /\ dirty_tree = Idle /\ scrapers_run = Idle /\ first_call = Idle
    /\ smart_wait = Idle /\ write_back = Idle /\ group_run = Idle

notSearchRun == <<earlier, middle, dirty_tree, scrapers_run, first_call, smart_wait,
                  write_back, group_run>>

\* The sources of a set whose waiter task has finished.
finished_of(tasks) == {s \in tasks : search_run.task[s] \in {"result", "ended"}}

\* wrapped(): `await anext(src)` ends with a result or with an exception
\* (StopAsyncIteration included), which is returned with the source.  The
\* task runs on its own, whatever the generator and its consumer do.
WaiterFinishes(s) ==
    /\ search_run.task[s] = "pending"
    /\ search_run' = [search_run EXCEPT
           !.task[s] = IF search_run.left[s] > 0 THEN "result" ELSE "ended",
           !.left[s] = IF @ > 0 THEN @ - 1 ELSE @]
    /\ UNCHANGED notSearchRun

\* asyncio.wait(waiting_sources, return_when=ALL_COMPLETED, timeout=5): all
\* tasks have finished, or the five seconds are over.
FirstBatchWaitReturns ==
    /\ search_run.pc = "batch_wait"
    /\ LET done == finished_of(search_run.waiting_sources)
       IN search_run' = [search_run EXCEPT
              !.pc = "batch_for", !.done_sources = done,
              !.waiting_sources = @ \ done]
    /\ UNCHANGED notSearchRun

\* One turn of `for done in done_sources`.  handle_result starts the next
\* waiter of a source that gave a result before the result is yielded; the
\* consumer adds a result it does not have yet to its pool and breaks when
\* the pools hold consider_results results.  Nothing is done to the tasks
\* when the consumer breaks: the generator stays suspended at its yield.
ForDoneSource ==
    /\ search_run.pc \in {"batch_for", "free_for"}
    /\ IF search_run.done_sources = {}
       THEN search_run' = [search_run EXCEPT
                !.pc = IF search_run.waiting_sources = {}
                       THEN "exhausted" ELSE "free_wait"]
       ELSE \E s \in search_run.done_sources :
               IF handle_result(search_run.task[s])
               THEN \E known \in BOOLEAN :
                       LET pool == search_run.pool + (IF known THEN 0 ELSE 1)
                           stop == pool >= search_run.consider_results
                       IN search_run' = [search_run EXCEPT
                              !.done_sources = @ \ {s},
                              !.waiting_sources = @ \cup {s},
                              !.task[s] = "pending",
                              !.pool = pool,
                              !.early = stop,
                              !.pc = IF stop THEN "stopped" ELSE @]
               ELSE search_run' = [search_run EXCEPT
                        !.done_sources = @ \ {s},
                        !.task[s] = "none"]
    /\ UNCHANGED notSearchRun

\* asyncio.wait(waiting_sources, return_when=FIRST_COMPLETED) returns.
FirstCompletedWaitReturns ==
    /\ search_run.pc = "free_wait"
    /\ finished_of(search_run.waiting_sources) # {}
    /\ LET done == finished_of(search_run.waiting_sources)
       IN search_run' = [search_run EXCEPT
              !.pc = "free_for", !.done_sources = done,
              !.waiting_sources = @ \ done]
    /\ UNCHANGED notSearchRun

\* _search_anime goes on after its loop and returns.
SearchReturns ==
    /\ search_run.pc \in {"stopped", "exhausted"}
    /\ search_run' = [search_run EXCEPT !.pc = "returned"]
    /\ UNCHANGED notSearchRun

NextSearchRun ==
    \/ \E s \in Sources : WaiterFinishes(s)
    \/ FirstBatchWaitReturns
    \/ ForDoneSource
    \/ FirstCompletedWaitReturns
    \/ SearchReturns

SpecSearchRun == InitSearchRun /\ [][NextSearchRun]_vars

\* C40: when the consumer of search_anime stopped early because the pools
\* reached consider_results, no waiter task of a source is pending, neither
\* at the stop nor when the search has returned.
C40_NoTaskLeftAfterEarlyStop ==
    search_run.pc \in {"stopped", "returned"} /\ search_run.early
        => \A s \in Sources : search_run.task[s] # "pending"

\* What holds: a search whose sources were all exhausted leaves no task
\* behind, and an early stop happens only with consider_results results.
C40_NoTaskLeftWhenExhausted ==
    /\ search_run.pc \in {"exhausted", "returned"} /\ ~search_run.early
          => \A s \in Sources : search_run.task[s] = "none"
    /\ search_run.pc \in {"stopped", "returned"} /\ search_run.early
          => search_run.pool >= search_run.consider_results

====
